---- MODULE Spec2Model ----
(***************************************************************************)
(* Model of projector's `create` (Effect-based variant) and of its         *)
(* configuration resolver, of the handle it returns, of the Promise-based  *)
(* variant of `create` with its subprocess registry, and of the layout     *)
(* module's `set`.                                                         *)
(*                                                                         *)
(* Strings are sequences of tokens: the separator "/" is one token, every  *)
(* path segment is one token, and so are ":" and " ".  Because a segment   *)
(* never holds a separator and every encoded directory starts and ends     *)
(* with "/", String.prototype.replace on encoded directories can only      *)
(* match at segment boundaries, so the token level computes what the       *)
(* character level computes.                                               *)
(***************************************************************************)
EXTENDS Integers, Sequences, FiniteSets, TLC

VARIABLES
  pc,        \* position of the running create call
  clock,     \* Date.now(), in milliseconds
  params,    \* `parameters` of the running call: directory, package, links, scripts
  config,    \* the Config returned by resolveConfigInput
  template,  \* files under the template source directory
  disk,      \* files under the project root: name -> text
  packageJsonResult, \* the Manifest Loader's value
  project,   \* the handle being assembled
  linkIdx,   \* number of link requests the loop has taken
  workspaceReplacements, \* queued rewrites: package name -> specifier
  log,       \* history: the observable steps of the call, in order
  result,    \* what create yields to its caller
  made,      \* history: the directories synthesized by resolver calls
  invoked,   \* history: the handles the script factory was invoked with
  configInput, \* the argument of resolveConfigInput, when it is examined alone
  shellProcesses, \* Promise variant: what shellWrapped has pushed
  processes, \* Promise variant: every subprocess spawned through the handle
  stops,     \* Promise variant, history: how each call of `stop` settled
  layoutCall,   \* layout: the directory of Layout.create and the argument of set
  layoutFs,     \* layout: the files written under the directory
  layoutResult  \* layout: what set yields to its caller

vars == <<pc, clock, params, config, template, disk, packageJsonResult,
          project, linkIdx, workspaceReplacements, log, result, made,
          invoked, configInput, shellProcesses, processes, stops,
          layoutCall, layoutFs, layoutResult>>

\* the state of a Layout
layoutVars == <<layoutCall, layoutFs, layoutResult>>

\* the state of the handle of the Promise variant
handleVars == <<shellProcesses, processes, stops>>

----------------------------------------------------------------------------
(* Bounds *)

MaxLinks == 2
MaxClock == 1
MaxCalls == 2
MaxProcesses == 2
MaxStops == 2
MaxEntries == 2

----------------------------------------------------------------------------
(* Strings and paths *)

Sep == "/"

\* `a` occurs in `s` at position i
OccursAt(s, a, i) ==
  /\ i >= 1
  /\ i + Len(a) - 1 <= Len(s)
  /\ SubSeq(s, i, i + Len(a) - 1) = a

\* s.replace(a, '') with a string pattern: the first occurrence only
ReplaceFirst(s, a) ==
  LET hits == {i \in 1..Len(s) : OccursAt(s, a, i)}
  IN  IF hits = {} THEN s
      ELSE LET i == CHOOSE j \in hits : \A k \in hits : j <= k
           IN  SubSeq(s, 1, i - 1) \o SubSeq(s, i + Len(a), Len(s))

\* s.replace(/^\//, '')
StripLeadingSep(s) ==
  IF s # <<>> /\ Head(s) = Sep THEN Tail(s) ELSE s

RECURSIVE EncodeSegs(_)
EncodeSegs(segs) ==
  IF segs = <<>> THEN <<>>
  ELSE <<Head(segs), Sep>> \o EncodeSegs(Tail(segs))

\* FsLoc.encodeSync of an absolute directory: "/a/b/"
EncodeSync(dir) == <<Sep>> \o EncodeSegs(dir.segments)

\* the segments of a path string: its tokens other than the separator
Segments(s) == SelectSeq(s, LAMBDA t : t # Sep)

\* mutant: a relative path decodes as well
DecodeAbsDir_Lenient(s) == [ok |-> TRUE, dir |-> [segments |-> Segments(s)]]

\* FsLoc.AbsDir.decode: fails unless the string is an absolute path
DecodeAbsDir(s) ==
  IF s # <<>> /\ Head(s) = Sep
  THEN [ok |-> TRUE, dir |-> [segments |-> Segments(s)]]
  ELSE [ok |-> FALSE, dir |-> [segments |-> <<>>]]

----------------------------------------------------------------------------
(* Input values: undefined, a string, a structured absolute directory      *)
(* (it carries `_tag`), or a ScaffoldInput object                          *)

NoDir == [segments |-> <<>>]
Undefined == [t |-> "undefined", s |-> <<>>, dir |-> NoDir, type |-> "", dirIsString |-> FALSE]
Str(s) == [t |-> "string", s |-> s, dir |-> NoDir, type |-> "", dirIsString |-> FALSE]
AbsDir(segs) == [t |-> "absdir", s |-> <<>>, dir |-> [segments |-> segs], type |-> "", dirIsString |-> FALSE]
ScaffoldInit == [t |-> "object", s |-> <<>>, dir |-> NoDir, type |-> "init", dirIsString |-> FALSE]
ScaffoldTemplateStr(s) == [t |-> "object", s |-> s, dir |-> NoDir, type |-> "template", dirIsString |-> TRUE]
ScaffoldTemplateDir(segs) == [t |-> "object", s |-> <<>>, dir |-> [segments |-> segs], type |-> "template", dirIsString |-> FALSE]
ScaffoldUntyped == [t |-> "object", s |-> <<>>, dir |-> NoDir, type |-> "", dirIsString |-> FALSE]

\* JavaScript truthiness of an input value
Truthy(v) ==
  CASE v.t = "undefined" -> FALSE
    [] v.t = "string" -> v.s # <<>>
    [] OTHER -> TRUE

----------------------------------------------------------------------------
(* Errors *)

NoError == [kind |-> "none", detail |-> <<>>]
InvalidDirectoryError(path) == [kind |-> "InvalidDirectoryError", detail |-> path]
PackageJsonMissingError(directory) == [kind |-> "PackageJsonMissingError", detail |-> directory]
FileSystemError(operation) == [kind |-> "FileSystemError", detail |-> <<operation>>]
\* the failure of a file-system collaborator, passed on as it is
PlatformError(operation) == [kind |-> "PlatformError", detail |-> <<operation>>]
\* an exception thrown inside the generator: a defect, not a typed failure
Defect(what) == [kind |-> "Defect", detail |-> <<what>>]

----------------------------------------------------------------------------
(* Manifest text and JSON values *)

NoFields == [f \in {} |-> ""]
NoDeps == [n \in {} |-> <<>>]

JsonNull == [ty |-> "null", scalars |-> NoFields, hasDeps |-> FALSE, deps |-> NoDeps]
JsonObject(scalars, hasDeps, deps) ==
  [ty |-> "object", scalars |-> scalars, hasDeps |-> hasDeps, deps |-> deps]

\* the JSON values false, 0 and ""
JsonFalse == [ty |-> "false", scalars |-> NoFields, hasDeps |-> FALSE, deps |-> NoDeps]
JsonZero == [ty |-> "zero", scalars |-> NoFields, hasDeps |-> FALSE, deps |-> NoDeps]
JsonEmptyString ==
  [ty |-> "emptyString", scalars |-> NoFields, hasDeps |-> FALSE, deps |-> NoDeps]

\* `!value` is false for an object and true for null, false, 0 and ""
JsonTruthy(v) == v.ty = "object"

\* mutant: every falsy value becomes None
FromNullable_Falsy(v) == [some |-> JsonTruthy(v), val |-> v]

\* Option.fromNullable(value): None for null (and undefined) only
FromNullable(v) == [some |-> v.ty # "null", val |-> v]

Garbage == [kind |-> "garbage", val |-> JsonNull]

\* JSON.stringify(value, null, 2)
JsonStringify(v) == [kind |-> "json", val |-> v]

\* mutant: text that is not JSON parses to an empty object
JsonParse_Lenient(text) ==
  IF text.kind = "json" THEN [ok |-> TRUE, val |-> text.val]
  ELSE [ok |-> TRUE, val |-> JsonObject(NoFields, FALSE, NoDeps)]

\* JSON.parse(text): throws on text that is not JSON
JsonParse(text) ==
  IF text.kind = "json" THEN [ok |-> TRUE, val |-> text.val]
  ELSE [ok |-> FALSE, val |-> JsonNull]

WorkspaceStar == <<"workspace", ":", "*">>

\* the literal written by the init scaffold
InitManifest ==
  JsonObject([f \in {"name", "packageManager"} |->
                IF f = "name" THEN "project" ELSE "pnpm@10.10.0"],
             FALSE, NoDeps)

NoFiles == [f \in {} |-> Garbage]
ManifestName == "package.json"

----------------------------------------------------------------------------
(* Configuration Resolver *)

InitScaffold == [type |-> "init", dir |-> NoDir]
TemplateScaffold(dir) == [type |-> "template", dir |-> dir]

\* mutant: the `type` of a ScaffoldInput object is not looked at
ResolveScaffold_TypeIgnored(scaffold) ==
  IF ~Truthy(scaffold)
  THEN [ok |-> TRUE, scaffold |-> InitScaffold, error |-> NoError]
  ELSE IF scaffold.t = "string"
  THEN LET d == DecodeAbsDir(scaffold.s)
       IN  IF d.ok
           THEN [ok |-> TRUE, scaffold |-> TemplateScaffold(d.dir), error |-> NoError]
           ELSE [ok |-> FALSE, scaffold |-> InitScaffold,
                 error |-> InvalidDirectoryError(scaffold.s)]
  ELSE IF scaffold.t = "absdir"
  THEN [ok |-> TRUE, scaffold |-> TemplateScaffold(scaffold.dir), error |-> NoError]
  ELSE [ok |-> TRUE, scaffold |-> InitScaffold, error |-> NoError]

ResolveScaffold(scaffold) ==
  IF ~Truthy(scaffold)
  THEN [ok |-> TRUE, scaffold |-> InitScaffold, error |-> NoError]
  ELSE IF scaffold.t = "string"
  THEN LET d == DecodeAbsDir(scaffold.s)
       IN  IF d.ok
           THEN [ok |-> TRUE, scaffold |-> TemplateScaffold(d.dir), error |-> NoError]
           ELSE [ok |-> FALSE, scaffold |-> InitScaffold,
                 error |-> InvalidDirectoryError(scaffold.s)]
  ELSE IF scaffold.t = "absdir"
  THEN [ok |-> TRUE, scaffold |-> TemplateScaffold(scaffold.dir), error |-> NoError]
  ELSE IF scaffold.type = "template"
  THEN IF scaffold.dirIsString
       THEN LET d == DecodeAbsDir(scaffold.s)
            IN  IF d.ok
                THEN [ok |-> TRUE, scaffold |-> TemplateScaffold(d.dir), error |-> NoError]
                ELSE [ok |-> FALSE, scaffold |-> InitScaffold,
                      error |-> InvalidDirectoryError(scaffold.s)]
       ELSE [ok |-> TRUE, scaffold |-> TemplateScaffold(scaffold.dir), error |-> NoError]
  ELSE [ok |-> TRUE, scaffold |-> InitScaffold, error |-> NoError]

\* package input: undefined, false, or an object with install and links
PackageUndefined == [t |-> "undefined", install |-> "undefined", hasLinks |-> FALSE, links |-> <<>>]
PackageFalse == [t |-> "false", install |-> "undefined", hasLinks |-> FALSE, links |-> <<>>]
PackageObject(install, hasLinks, links) ==
  [t |-> "object", install |-> install, hasLinks |-> hasLinks, links |-> links]

\* mutant: an install flag left out counts as true
ResolveInstall_DefaultTrue(package) ==
  IF package.t = "object" THEN package.install # "false" ELSE FALSE

\* configInput.package ? (configInput.package.install ?? false) : false
ResolveInstall(package) ==
  IF package.t = "object" THEN package.install = "true" ELSE FALSE

\* mutant: package management is enabled whatever the input
ResolveEnabled_Always(package) == TRUE

\* configInput.package !== false
ResolveEnabled(package) == package.t # "false"

\* `/tmp/projector-${Date.now()}/`
TempDirPath(now) == <<Sep, "tmp", Sep, "projector-" \o ToString(now), Sep>>

\* mkdirOk: whether fs.makeDirectory succeeds
ResolveDirectory(directory, now, mkdirOk) ==
  IF Truthy(directory)
  THEN IF directory.t = "string"
       THEN LET d == DecodeAbsDir(directory.s)
            IN  IF d.ok
                THEN [ok |-> TRUE, dir |-> d.dir, error |-> NoError, synthesized |-> FALSE]
                ELSE [ok |-> FALSE, dir |-> NoDir,
                      error |-> InvalidDirectoryError(directory.s), synthesized |-> FALSE]
       ELSE [ok |-> TRUE, dir |-> directory.dir, error |-> NoError, synthesized |-> FALSE]
  ELSE LET d == DecodeAbsDir(TempDirPath(now))
       IN  IF ~d.ok
           THEN [ok |-> FALSE, dir |-> NoDir,
                 error |-> InvalidDirectoryError(TempDirPath(now)), synthesized |-> FALSE]
           ELSE IF ~mkdirOk
           THEN [ok |-> FALSE, dir |-> NoDir,
                 error |-> FileSystemError("makeDirectory"), synthesized |-> FALSE]
           ELSE [ok |-> TRUE, dir |-> d.dir, error |-> NoError, synthesized |-> TRUE]

NoConfig ==
  [directory |-> NoDir, scaffold |-> InitScaffold,
   package |-> [enabled |-> FALSE, install |-> FALSE]]

resolveConfigInput(directory, scaffold, package, now, mkdirOk) ==
  LET sc == ResolveScaffold(scaffold)
      dr == ResolveDirectory(directory, now, mkdirOk)
  IN  IF ~sc.ok
      THEN [ok |-> FALSE, config |-> NoConfig, error |-> sc.error, synthesized |-> FALSE]
      ELSE IF ~dr.ok
      THEN [ok |-> FALSE, config |-> NoConfig, error |-> dr.error, synthesized |-> FALSE]
      ELSE [ok |-> TRUE,
            config |-> [directory |-> dr.dir, scaffold |-> sc.scaffold,
                        package |-> [enabled |-> ResolveEnabled(package),
                                     install |-> ResolveInstall(package)]],
            error |-> NoError, synthesized |-> dr.synthesized]

----------------------------------------------------------------------------
(* Link Resolver: pure parts *)

\* linkDir.path.segments[length - 1] || 'unknown'
LinkDirName(linkDir) ==
  LET segs == linkDir.segments
  IN  IF segs = <<>> \/ segs[Len(segs)] = "" THEN "unknown" ELSE segs[Len(segs)]

\* linkDirString.replace(projectDirString, '').replace(/^\//, '')
RelativePath(projectDir, linkDir) ==
  StripLeadingSep(ReplaceFirst(EncodeSync(linkDir), EncodeSync(projectDir)))

\* `../${relativePath}`
PathToLinkDirFromProject(projectDir, linkDir) ==
  <<"..", Sep>> \o RelativePath(projectDir, linkDir)

\* `${link.protocol}:${pathToLinkDirFromProject}`
Specifier(protocol, path) == <<protocol, ":">> \o path

\* mutant: any declared dependency of that name counts, whatever its value
IsWorkspaceDep_AnyValue(manifest, name) ==
  /\ JsonTruthy(manifest)
  /\ manifest.hasDeps
  /\ name \in DOMAIN manifest.deps

\* packageJsonResult && packageJsonResult.dependencies?.[name] === `workspace:*`
IsWorkspaceDep(manifest, name) ==
  /\ JsonTruthy(manifest)
  /\ manifest.hasDeps
  /\ name \in DOMAIN manifest.deps
  /\ manifest.deps[name] = WorkspaceStar

\* `add link:${path}` / `add file:${path}`
AddCommand(protocol, path) == <<"add", " ">> \o Specifier(protocol, path)

InstallCommand == <<"install">>

\* runPackageManagerCommand: the shell line `pnpm ${command}`
PnpmLine(command) == <<"pnpm", " ">> \o command

\* mutant: the loop over the queued entries assigns nothing
ApplyReplacements_Unchanged(manifest, replacements) == manifest

\* mutant: one queued entry is assigned, the others are left for later
ApplyReplacements_OneEntry(manifest, replacements) ==
  IF DOMAIN replacements = {} THEN manifest
  ELSE LET n == CHOOSE m \in DOMAIN replacements : TRUE
       IN  [manifest EXCEPT !.deps =
              [d \in DOMAIN manifest.deps \cup {n} |->
                 IF d = n THEN replacements[n] ELSE manifest.deps[d]]]

\* mutant: the dependencies become the queued entries and nothing else
ApplyReplacements_OnlyQueued(manifest, replacements) ==
  [manifest EXCEPT !.deps = replacements]

\* manifest.dependencies[depName] = replacement, for every queued entry
ApplyReplacements(manifest, replacements) ==
  [manifest EXCEPT !.deps =
     [n \in DOMAIN manifest.deps \cup DOMAIN replacements |->
        IF n \in DOMAIN replacements THEN replacements[n] ELSE manifest.deps[n]]]

\* mutant: an entry already queued under the name is kept
QueueReplacement_FirstWins(replacements, name, specifier) ==
  [n \in DOMAIN replacements \cup {name} |->
     IF n \in DOMAIN replacements THEN replacements[n] ELSE specifier]

\* workspaceReplacements[linkDirName] = specifier
QueueReplacement(replacements, name, specifier) ==
  [n \in DOMAIN replacements \cup {name} |->
     IF n = name THEN specifier ELSE replacements[n]]

\* mutant: the presence check looks at the install flag
ManifestMissing_InstallOnly(cfg, manifest) ==
  cfg.package.install /\ ~JsonTruthy(manifest)

\* config.package.enabled && !packageJsonResult
ManifestMissing(cfg, manifest) == cfg.package.enabled /\ ~JsonTruthy(manifest)

\* parameters.package ? parameters.package.links ?? [] : []
Links(package) ==
  IF package.t = "object" /\ package.hasLinks THEN package.links ELSE <<>>

----------------------------------------------------------------------------
(* Collaborators *)

\* mutant: a file already in the target is not copied over
CopyTree_KeepExisting(from, to) ==
  [f \in DOMAIN from \cup DOMAIN to |-> IF f \in DOMAIN to THEN to[f] ELSE from[f]]

\* Fs.copy(from, to): every file of the template, over what is there
CopyTree(from, to) ==
  [f \in DOMAIN from \cup DOMAIN to |-> IF f \in DOMAIN from THEN from[f] ELSE to[f]]

\* mutant: a write leaves a backup file beside the file written
WriteFile_WithBackup(files, name, text) ==
  [f \in DOMAIN files \cup {name, name \o ".bak"} |->
     IF f \in {name, name \o ".bak"} THEN text ELSE files[f]]

\* writing one file
WriteFile(files, name, text) ==
  [f \in DOMAIN files \cup {name} |-> IF f = name THEN text ELSE files[f]]

\* whether the manifest on disk is a JSON object
DiskManifestIsObject(files) ==
  /\ ManifestName \in DOMAIN files
  /\ JsonParse(files[ManifestName]).ok
  /\ JsonTruthy(JsonParse(files[ManifestName]).val)

\* what a successful `pnpm add <specifier>` leaves in the manifest: the
\* dependency entry of the added package
PnpmAdd(files, name, specifier) ==
  LET m == JsonParse(files[ManifestName]).val
  IN  WriteFile(files, ManifestName,
        JsonStringify([m EXCEPT !.hasDeps = TRUE,
                         !.deps = [n \in DOMAIN m.deps \cup {name} |->
                                     IF n = name THEN specifier ELSE m.deps[n]]]))

----------------------------------------------------------------------------
(* History records *)

Event(ev, link, sh, cwd) == [ev |-> ev, link |-> link, sh |-> sh, cwd |-> cwd]

NoProject ==
  [assembled |-> FALSE, dir |-> NoDir, shellCwd |-> NoDir, packageManagerCwd |-> NoDir,
   files |-> [some |-> FALSE, val |-> JsonNull], run |-> "unset"]

\* what the caller gets; `step` records where a failing call stopped
Pending == [status |-> "pending", error |-> NoError, step |-> ""]
Failure(error, step) == [status |-> "error", error |-> error, step |-> step]
Success == [status |-> "handle", error |-> NoError, step |-> ""]

----------------------------------------------------------------------------
(* Inputs *)

ProjectRoot == <<"tmp", "p">>
TemplateRoot == <<"tpl">>

DirectoryInputs ==
  { Undefined, Str(<<>>), Str(<<Sep, "tmp", Sep, "p", Sep>>), Str(<<"p">>),
    AbsDir(ProjectRoot) }

ScaffoldInputs ==
  { Undefined, Str(<<>>), Str(<<Sep, "tpl", Sep>>), Str(<<"init">>),
    AbsDir(TemplateRoot), ScaffoldInit, ScaffoldUntyped,
    ScaffoldTemplateStr(<<Sep, "tpl", Sep>>), ScaffoldTemplateStr(<<"tpl">>),
    ScaffoldTemplateDir(TemplateRoot) }

LinkTargets ==
  { Str(<<Sep, "tmp", Sep, "mylib", Sep>>),   \* a sibling of the project root
    AbsDir(<<"tmp", "p", "lib">>),            \* below the project root
    AbsDir(<<"x", "tmp", "p", "mylib">>),     \* the same name elsewhere, the
                                              \* root's path inside its path
    AbsDir(<<>>),                             \* no segments
    Str(<<"mylib">>) }                        \* not an absolute path

Protocols == {"link", "file"}

\* the protocol only names the specifier: `file` is asked for one target
LinkRequests ==
  {r \in [dir : LinkTargets, protocol : Protocols] :
     r.protocol = "file" => r.dir = Str(<<Sep, "tmp", Sep, "mylib", Sep>>)}

LinkLists == UNION {[1..n -> LinkRequests] : n \in 0..MaxLinks}

PackageInputs ==
  {PackageUndefined, PackageFalse}
    \cup {PackageObject(i, FALSE, <<>>) : i \in {"undefined", "true", "false"}}
    \cup {PackageObject(i, TRUE, l) : i \in {"undefined", "true", "false"}, l \in LinkLists}

Dependencies(names, specifier) == [n \in names |-> specifier[n]]

TemplateScalars ==
  [f \in {"name", "version"} |-> IF f = "name" THEN "template-project" ELSE "1.0.0"]

\* manifests a template (or the target directory) may hold
ManifestTexts ==
  { Garbage,
    JsonStringify(JsonNull),
    JsonStringify(JsonFalse),
    JsonStringify(JsonZero),
    JsonStringify(JsonEmptyString),
    JsonStringify(JsonObject(TemplateScalars, FALSE, NoDeps)),
    JsonStringify(JsonObject(TemplateScalars, TRUE,
      [n \in {"mylib"} |-> WorkspaceStar])),
    JsonStringify(JsonObject(TemplateScalars, TRUE,
      [n \in {"mylib", "lib", "other"} |->
         IF n = "other" THEN <<"^1.0.0">> ELSE WorkspaceStar])),
    JsonStringify(JsonObject(TemplateScalars, TRUE,
      [n \in {"mylib", "unknown"} |->
         IF n = "mylib" THEN <<"^1.0.0">> ELSE WorkspaceStar])) }

IndexJs == [kind |-> "text", val |-> JsonNull]

TemplateFiles ==
  {[f \in {"index.js"} |-> IndexJs]}
    \cup {[f \in {"index.js", ManifestName} |-> IF f = ManifestName THEN t ELSE IndexJs] :
            t \in ManifestTexts}

\* what a supplied directory may already hold
PreexistingFiles ==
  { NoFiles,
    [f \in {ManifestName, "notes.txt"} |->
       IF f = ManifestName
       THEN JsonStringify(JsonObject(TemplateScalars, TRUE,
                                     [n \in {"lib"} |-> WorkspaceStar]))
       ELSE [kind |-> "text", val |-> JsonNull]] }

NoParams ==
  [directory |-> Undefined, package |-> PackageUndefined,
   links |-> <<>>, scripts |-> FALSE]

NoConfigInput ==
  [directory |-> Undefined, scaffold |-> Undefined, package |-> PackageUndefined]

----------------------------------------------------------------------------
(* Layout: values of a nested layout, flattenTree *)

LString(text) == [t |-> "string", s |-> text, fields |-> <<>>]
LNumber == [t |-> "number", s |-> <<>>, fields |-> <<>>]
LBoolean == [t |-> "boolean", s |-> <<>>, fields |-> <<>>]
LNull == [t |-> "null", s |-> <<>>, fields |-> <<>>]
\* fields: the entries in insertion order, as Object.entries lists them
LObject(fields) == [t |-> "object", s |-> <<>>, fields |-> fields]

NoLayoutCall == [directory |-> NoDir, layout |-> LObject(<<>>)]

\* what set yields: its argument, or an Error
LayoutPending == [status |-> "pending", value |-> LObject(<<>>)]
LayoutReturned(layout) == [status |-> "returned", value |-> layout]
LayoutError == [status |-> "error", value |-> LObject(<<>>)]

\* mutant: every object is a directory structure
hasNonStringPrimitives_Never(value) == FALSE

\* values.some(v => v !== null && v !== undefined && typeof v !== 'string'
\*                  && typeof v !== 'object')
hasNonStringPrimitives(value) ==
  \E i \in 1..Len(value.fields) :
    LET v == value.fields[i].value
    IN  v.t # "null" /\ v.t # "string" /\ v.t # "object"

\* result[path] = value: an existing property keeps its place
PutEntry(flat, path, value) ==
  IF \E i \in 1..Len(flat) : flat[i].path = path
  THEN [i \in 1..Len(flat) |->
          IF flat[i].path = path THEN [path |-> path, content |-> value] ELSE flat[i]]
  ELSE Append(flat, [path |-> path, content |-> value])

\* Object.assign(result, more)
RECURSIVE AssignEntries(_, _)
AssignEntries(flat, more) ==
  IF more = <<>> THEN flat
  ELSE AssignEntries(PutEntry(flat, Head(more).path, Head(more).content), Tail(more))

RECURSIVE flattenTree(_, _)
RECURSIVE FlattenInto(_, _, _)
\* the loop of flattenTree over Object.entries(tree), `flat` being `result`
FlattenInto(fields, prefix, flat) ==
  IF fields = <<>> THEN flat
  ELSE LET key == Head(fields).key
           value == Head(fields).value
           path == IF prefix # <<>> THEN prefix \o <<Sep>> \o key ELSE key
           next == IF value.t = "object"
                   THEN IF hasNonStringPrimitives(value)
                        THEN PutEntry(flat, path, value)
                        ELSE AssignEntries(flat, flattenTree(value.fields, path))
                   ELSE PutEntry(flat, path, value)
       IN  FlattenInto(Tail(fields), prefix, next)

flattenTree(fields, prefix) == FlattenInto(fields, prefix, <<>>)

\* typeof content === 'string' ? content : JSON.stringify(content, null, 2)
FileContent(content) == [json |-> content.t # "string", of |-> content]

\* FsLocOps.join(directory, relFile)
FullPath(directory, filePath) == directory.segments \o Segments(filePath)

\* Fs.writeString(fullPath, fileContent)
WriteString(files, path, text) ==
  {f \in files : f.path # path} \cup {[path |-> path, text |-> text]}

RECURSIVE WriteEntries(_, _, _)
WriteEntries(files, directory, entries) ==
  IF entries = <<>> THEN files
  ELSE WriteEntries(WriteString(files, FullPath(directory, Head(entries).path),
                                FileContent(Head(entries).content)),
                    directory, Tail(entries))

LeafValues == {LString(<<"x">>), LNumber, LBoolean, LNull}

InnerKeys == <<(<<"b.js">>), (<<"c.js">>)>>

RootKeys == {<<"a">>, <<"a", Sep, "b.js">>, <<"d.json">>}

\* the objects one level down: their keys in the order of InnerKeys
InnerObjects ==
  { LObject([i \in 1..Len(ks) |-> [key |-> InnerKeys[ks[i]], value |-> vs[i]]]) :
      ks \in {k \in UNION {[1..n -> DOMAIN InnerKeys] : n \in 0..Len(InnerKeys)} :
                \A i, j \in DOMAIN k : i < j => k[i] < k[j]},
      vs \in [DOMAIN InnerKeys -> LeafValues] }

\* the layouts: up to MaxEntries entries under distinct keys, in any order
Layouts ==
  { LObject(f) :
      f \in { g \in UNION {[1..n -> [key : RootKeys, value : LeafValues \cup InnerObjects]] :
                             n \in 1..MaxEntries} :
                \A i, j \in DOMAIN g : i # j => g[i].key # g[j].key } }

----------------------------------------------------------------------------
(* create *)

Init ==
  /\ pc = "idle"
  /\ clock = 0
  /\ params = NoParams
  /\ config = NoConfig
  /\ template = NoFiles
  /\ disk = NoFiles
  /\ packageJsonResult = JsonNull
  /\ project = NoProject
  /\ linkIdx = 0
  /\ workspaceReplacements = NoDeps
  /\ log = <<>>
  /\ result = Pending
  /\ made = <<>>
  /\ invoked = <<>>
  /\ configInput = NoConfigInput
  /\ shellProcesses = <<>>
  /\ processes = <<>>
  /\ stops = <<>>
  /\ layoutCall = NoLayoutCall
  /\ layoutFs = {}
  /\ layoutResult = LayoutPending

\* time passes between calls
Tick ==
  /\ pc = "idle"
  /\ clock < MaxClock
  /\ clock' = clock + 1
  /\ UNCHANGED <<pc, params, config, template, disk, packageJsonResult, project,
                 linkIdx, workspaceReplacements, log, result, made,
                 invoked, configInput>>
  /\ UNCHANGED handleVars
  /\ UNCHANGED layoutVars

\* create is called: resolveConfigInput
Call ==
  /\ pc = "idle"
  /\ \E directory \in DirectoryInputs, scaffold \in ScaffoldInputs,
        package \in PackageInputs, scripts \in BOOLEAN :
       \E mkdirOk \in (IF Truthy(directory) THEN {TRUE} ELSE BOOLEAN) :
         LET r == resolveConfigInput(directory, scaffold, package, clock, mkdirOk)
         IN  IF r.ok
             THEN /\ r.synthesized => Len(made) < MaxCalls
                  /\ \E pre \in (IF r.synthesized THEN {NoFiles} ELSE PreexistingFiles),
                        tmpl \in (IF r.config.scaffold.type = "template"
                                  THEN TemplateFiles ELSE {NoFiles}) :
                       /\ pc' = "scaffold"
                       /\ config' = r.config
                       /\ params' = [directory |-> directory, package |-> package,
                                     links |-> Links(package), scripts |-> scripts]
                       /\ disk' = pre
                       /\ template' = tmpl
                       /\ made' = IF r.synthesized
                                  THEN Append(made, EncodeSync(r.config.directory))
                                  ELSE made
                       /\ UNCHANGED result
             ELSE /\ pc' = "failed"
                  /\ result' = Failure(r.error, "resolve")
                  /\ UNCHANGED <<config, params, disk, template, made>>
  /\ UNCHANGED <<clock, packageJsonResult, project, linkIdx,
                 workspaceReplacements, log, invoked, configInput>>
  /\ UNCHANGED handleVars
  /\ UNCHANGED layoutVars

\* the scaffold switch
Scaffold ==
  /\ pc = "scaffold"
  /\ \E ok \in BOOLEAN :
       IF ok
       THEN /\ disk' = IF config.scaffold.type = "template"
                       THEN CopyTree(template, disk)
                       ELSE WriteFile(disk, ManifestName, JsonStringify(InitManifest))
            /\ log' = Append(log, Event("scaffold", 0, <<>>, config.directory))
            /\ pc' = "load"
            /\ UNCHANGED result
       ELSE /\ pc' = "failed"
            /\ result' = Failure(PlatformError(IF config.scaffold.type = "template"
                                               THEN "copy" ELSE "write"),
                               "scaffold")
            /\ UNCHANGED <<disk, log>>
  /\ UNCHANGED <<clock, params, config, template, packageJsonResult, project,
                 linkIdx, workspaceReplacements, made, invoked, configInput>>
  /\ UNCHANGED handleVars
  /\ UNCHANGED layoutVars

\* Fs.exists, Fs.readString, JSON.parse in try/catch, then the presence check
LoadManifest ==
  /\ pc = "load"
  /\ \E readOk \in (IF ManifestName \in DOMAIN disk THEN BOOLEAN ELSE {TRUE}) :
       IF ~readOk
       THEN /\ pc' = "failed"
            /\ result' = Failure(PlatformError("readString"), "load")
            /\ UNCHANGED <<packageJsonResult, log>>
       ELSE LET loaded == IF ManifestName \in DOMAIN disk
                             /\ JsonParse(disk[ManifestName]).ok
                          THEN JsonParse(disk[ManifestName]).val
                          ELSE JsonNull
            IN  /\ packageJsonResult' = loaded
                /\ log' = Append(log, Event("load", 0, <<>>, config.directory))
                /\ IF ManifestMissing(config, loaded)
                   THEN /\ pc' = "failed"
                        /\ result' = Failure(PackageJsonMissingError(
                                               EncodeSync(config.directory)),
                                           "load")
                   ELSE /\ pc' = "assemble"
                        /\ UNCHANGED result
  /\ UNCHANGED <<clock, params, config, template, disk, project, linkIdx,
                 workspaceReplacements, made, invoked, configInput>>
  /\ UNCHANGED handleVars
  /\ UNCHANGED layoutVars

\* mutant: the handle is built but the script factory is never invoked
AssembleHandle_NoFactory ==
  /\ pc = "assemble"
  /\ project' = [assembled |-> TRUE,
                 dir |-> config.directory,
                 shellCwd |-> config.directory,
                 packageManagerCwd |-> config.directory,
                 files |-> FromNullable(packageJsonResult),
                 run |-> "empty"]
  /\ pc' = "links"
  /\ UNCHANGED <<clock, params, config, template, disk, packageJsonResult,
                 linkIdx, workspaceReplacements, log, result, made, invoked,
                 configInput>>
  /\ UNCHANGED handleVars
  /\ UNCHANGED layoutVars

\* mutant: the script factory is invoked before `files` is put on the handle
AssembleHandle_FactoryBeforeFiles ==
  /\ pc = "assemble"
  /\ LET handle == [assembled |-> TRUE,
                    dir |-> config.directory,
                    shellCwd |-> config.directory,
                    packageManagerCwd |-> config.directory,
                    files |-> NoProject.files,
                    run |-> "unset"]
     IN  /\ project' = [handle EXCEPT
                          !.files = FromNullable(packageJsonResult),
                          !.run = IF params.scripts THEN "scripts" ELSE "empty"]
         /\ invoked' = IF params.scripts THEN Append(invoked, handle) ELSE invoked
  /\ log' = IF params.scripts
            THEN Append(log, Event("factory", 0, <<>>, config.directory))
            ELSE log
  /\ pc' = "links"
  /\ UNCHANGED <<clock, params, config, template, disk, packageJsonResult,
                 linkIdx, workspaceReplacements, result, made, configInput>>
  /\ UNCHANGED handleVars
  /\ UNCHANGED layoutVars

\* the handle is built and the script factory, if any, is invoked with it
AssembleHandle ==
  /\ pc = "assemble"
  /\ LET handle == [assembled |-> TRUE,
                    dir |-> config.directory,
                    shellCwd |-> config.directory,
                    packageManagerCwd |-> config.directory,
                    files |-> FromNullable(packageJsonResult),
                    run |-> "unset"]
     IN  /\ project' = [handle EXCEPT
                          !.run = IF params.scripts THEN "scripts" ELSE "empty"]
         /\ invoked' = IF params.scripts THEN Append(invoked, handle) ELSE invoked
  /\ log' = IF params.scripts
            THEN Append(log, Event("factory", 0, <<>>, config.directory))
            ELSE log
  /\ pc' = "links"
  /\ UNCHANGED <<clock, params, config, template, disk, packageJsonResult,
                 linkIdx, workspaceReplacements, result, made, configInput>>
  /\ UNCHANGED handleVars
  /\ UNCHANGED layoutVars

\* the directory of a link request: decoded when it is a string
LinkDir(link) ==
  IF link.dir.t = "string" THEN DecodeAbsDir(link.dir.s)
  ELSE [ok |-> TRUE, dir |-> link.dir.dir]

\* the manifest as it is on disk now
DiskManifest ==
  IF DiskManifestIsObject(disk) THEN JsonParse(disk[ManifestName]).val ELSE JsonNull

\* mutant: each request is decided against the manifest now on disk
LinkStep_DecideFromDisk ==
  /\ pc = "links"
  /\ linkIdx < Len(params.links)
  /\ LET i == linkIdx + 1
         link == params.links[i]
         d == LinkDir(link)
         path == PathToLinkDirFromProject(project.dir, d.dir)
         name == LinkDirName(d.dir)
     IN  IF ~d.ok
         THEN /\ pc' = "failed"
              /\ result' = Failure(InvalidDirectoryError(link.dir.s), "link")
              /\ UNCHANGED <<linkIdx, workspaceReplacements, log, disk>>
         ELSE IF IsWorkspaceDep(DiskManifest, name)
         THEN /\ workspaceReplacements' =
                   QueueReplacement(workspaceReplacements, name,
                                    Specifier(link.protocol, path))
              /\ log' = Append(log, Event("queue", i, Specifier(link.protocol, path),
                                          project.dir))
              /\ linkIdx' = i
              /\ UNCHANGED <<pc, result, disk>>
         ELSE /\ log' = Append(log, Event("command", i,
                                          PnpmLine(AddCommand(link.protocol, path)),
                                          project.packageManagerCwd))
              /\ UNCHANGED workspaceReplacements
              /\ \E ok \in (IF DiskManifestIsObject(disk) THEN BOOLEAN ELSE {FALSE}) :
                   IF ok
                   THEN /\ disk' = PnpmAdd(disk, name, Specifier(link.protocol, path))
                        /\ linkIdx' = i
                        /\ UNCHANGED <<pc, result>>
                   ELSE /\ pc' = "failed"
                        /\ result' = Failure(FileSystemError("command execution"), "link")
                        /\ UNCHANGED <<linkIdx, disk>>
  /\ UNCHANGED <<clock, params, config, template, packageJsonResult, project, made,
                 invoked, configInput>>
  /\ UNCHANGED handleVars
  /\ UNCHANGED layoutVars

\* mutant: an add command that fails is issued again
LinkStep_Retry ==
  /\ pc = "links"
  /\ linkIdx < Len(params.links)
  /\ LET i == linkIdx + 1
         link == params.links[i]
         d == LinkDir(link)
         path == PathToLinkDirFromProject(project.dir, d.dir)
         name == LinkDirName(d.dir)
     IN  IF ~d.ok
         THEN /\ pc' = "failed"
              /\ result' = Failure(InvalidDirectoryError(link.dir.s), "link")
              /\ UNCHANGED <<linkIdx, workspaceReplacements, log, disk>>
         ELSE IF IsWorkspaceDep(packageJsonResult, name)
         THEN /\ workspaceReplacements' =
                   QueueReplacement(workspaceReplacements, name,
                                    Specifier(link.protocol, path))
              /\ log' = Append(log, Event("queue", i, Specifier(link.protocol, path),
                                          project.dir))
              /\ linkIdx' = i
              /\ UNCHANGED <<pc, result, disk>>
         ELSE /\ log' = Append(log, Event("command", i,
                                          PnpmLine(AddCommand(link.protocol, path)),
                                          project.packageManagerCwd))
              /\ UNCHANGED workspaceReplacements
              /\ \E ok \in (IF DiskManifestIsObject(disk) THEN BOOLEAN ELSE {FALSE}) :
                   IF ok
                   THEN /\ disk' = PnpmAdd(disk, name, Specifier(link.protocol, path))
                        /\ linkIdx' = i
                        /\ UNCHANGED <<pc, result>>
                   ELSE UNCHANGED <<pc, result, linkIdx, disk>>
  /\ UNCHANGED <<clock, params, config, template, packageJsonResult, project, made,
                 invoked, configInput>>
  /\ UNCHANGED handleVars
  /\ UNCHANGED layoutVars

\* one iteration of `for (const link of links)`
LinkStep ==
  /\ pc = "links"
  /\ linkIdx < Len(params.links)
  /\ LET i == linkIdx + 1
         link == params.links[i]
         d == LinkDir(link)
         path == PathToLinkDirFromProject(project.dir, d.dir)
         name == LinkDirName(d.dir)
     IN  IF ~d.ok
         THEN /\ pc' = "failed"
              /\ result' = Failure(InvalidDirectoryError(link.dir.s), "link")
              /\ UNCHANGED <<linkIdx, workspaceReplacements, log, disk>>
         ELSE IF IsWorkspaceDep(packageJsonResult, name)
         THEN /\ workspaceReplacements' =
                   QueueReplacement(workspaceReplacements, name,
                                    Specifier(link.protocol, path))
              /\ log' = Append(log, Event("queue", i, Specifier(link.protocol, path),
                                          project.dir))
              /\ linkIdx' = i
              /\ UNCHANGED <<pc, result, disk>>
         ELSE /\ log' = Append(log, Event("command", i,
                                          PnpmLine(AddCommand(link.protocol, path)),
                                          project.packageManagerCwd))
              /\ UNCHANGED workspaceReplacements
              /\ \E ok \in (IF DiskManifestIsObject(disk) THEN BOOLEAN ELSE {FALSE}) :
                   IF ok
                   THEN /\ disk' = PnpmAdd(disk, name, Specifier(link.protocol, path))
                        /\ linkIdx' = i
                        /\ UNCHANGED <<pc, result>>
                   ELSE /\ pc' = "failed"
                        /\ result' = Failure(FileSystemError("command execution"), "link")
                        /\ UNCHANGED <<linkIdx, disk>>
  /\ UNCHANGED <<clock, params, config, template, packageJsonResult, project, made,
                 invoked, configInput>>
  /\ UNCHANGED handleVars
  /\ UNCHANGED layoutVars

\* mutant: a manifest without `dependencies` gets the field and is written
WorkspaceRewrite_CreatesDependencies ==
  /\ pc = "links"
  /\ linkIdx = Len(params.links)
  /\ \/ /\ workspaceReplacements = NoDeps
        /\ pc' = "install"
        /\ UNCHANGED <<disk, log, result>>
     \/ /\ workspaceReplacements # NoDeps
        /\ DiskManifestIsObject(disk)
        /\ LET manifest == JsonParse(disk[ManifestName]).val
           IN  disk' = WriteFile(disk, ManifestName,
                         JsonStringify(ApplyReplacements(
                           [manifest EXCEPT !.hasDeps = TRUE], workspaceReplacements)))
        /\ log' = Append(Append(log, Event("rewriteRead", 0, <<>>, project.dir)),
                         Event("rewriteWrite", 0, <<>>, project.dir))
        /\ pc' = "install"
        /\ UNCHANGED result
  /\ UNCHANGED <<clock, params, config, template, packageJsonResult, project,
                 linkIdx, workspaceReplacements, made, invoked, configInput>>
  /\ UNCHANGED handleVars
  /\ UNCHANGED layoutVars

\* mutant: the rewriter starts from the Manifest Loader's value
WorkspaceRewrite_FromLoaded ==
  /\ pc = "links"
  /\ linkIdx = Len(params.links)
  /\ \/ /\ workspaceReplacements = NoDeps
        /\ pc' = "install"
        /\ UNCHANGED <<disk, log, result>>
     \/ \* Fs.readString fails
        /\ workspaceReplacements # NoDeps
        /\ pc' = "failed"
        /\ result' = Failure(PlatformError("readString"), "rewrite read")
        /\ UNCHANGED <<disk, log>>
     \/ \* JSON.parse throws
        /\ workspaceReplacements # NoDeps
        /\ ManifestName \in DOMAIN disk
        /\ ~JsonParse(disk[ManifestName]).ok
        /\ log' = Append(log, Event("rewriteRead", 0, <<>>, project.dir))
        /\ pc' = "failed"
        /\ result' = Failure(Defect("JSON.parse"), "rewrite parse")
        /\ UNCHANGED disk
     \/ \* `manifest && manifest.dependencies` is false: nothing is written
        /\ workspaceReplacements # NoDeps
        /\ ManifestName \in DOMAIN disk
        /\ JsonParse(disk[ManifestName]).ok
        /\ LET manifest == packageJsonResult
           IN  ~(JsonTruthy(manifest) /\ manifest.hasDeps)
        /\ log' = Append(log, Event("rewriteRead", 0, <<>>, project.dir))
        /\ pc' = "install"
        /\ UNCHANGED <<disk, result>>
     \/ \* the replacements are applied and the manifest is written back
        /\ workspaceReplacements # NoDeps
        /\ ManifestName \in DOMAIN disk
        /\ JsonParse(disk[ManifestName]).ok
        /\ LET manifest == packageJsonResult
           IN  /\ JsonTruthy(manifest) /\ manifest.hasDeps
               /\ \E writeOk \in BOOLEAN :
                    IF writeOk
                    THEN /\ disk' = WriteFile(disk, ManifestName,
                                      JsonStringify(ApplyReplacements(manifest,
                                                      workspaceReplacements)))
                         /\ log' = Append(Append(log,
                                     Event("rewriteRead", 0, <<>>, project.dir)),
                                     Event("rewriteWrite", 0, <<>>, project.dir))
                         /\ pc' = "install"
                         /\ UNCHANGED result
                    ELSE /\ log' = Append(log, Event("rewriteRead", 0, <<>>, project.dir))
                         /\ pc' = "failed"
                         /\ result' = Failure(PlatformError("write"), "rewrite write")
                         /\ UNCHANGED disk
  /\ UNCHANGED <<clock, params, config, template, packageJsonResult, project,
                 linkIdx, workspaceReplacements, made, invoked, configInput>>
  /\ UNCHANGED handleVars
  /\ UNCHANGED layoutVars

\* `if (Object.keys(workspaceReplacements).length > 0) { ... }`
WorkspaceRewrite ==
  /\ pc = "links"
  /\ linkIdx = Len(params.links)
  /\ \/ /\ workspaceReplacements = NoDeps
        /\ pc' = "install"
        /\ UNCHANGED <<disk, log, result>>
     \/ \* Fs.readString fails
        /\ workspaceReplacements # NoDeps
        /\ pc' = "failed"
        /\ result' = Failure(PlatformError("readString"), "rewrite read")
        /\ UNCHANGED <<disk, log>>
     \/ \* JSON.parse throws
        /\ workspaceReplacements # NoDeps
        /\ ManifestName \in DOMAIN disk
        /\ ~JsonParse(disk[ManifestName]).ok
        /\ log' = Append(log, Event("rewriteRead", 0, <<>>, project.dir))
        /\ pc' = "failed"
        /\ result' = Failure(Defect("JSON.parse"), "rewrite parse")
        /\ UNCHANGED disk
     \/ \* `manifest && manifest.dependencies` is false: nothing is written
        /\ workspaceReplacements # NoDeps
        /\ ManifestName \in DOMAIN disk
        /\ JsonParse(disk[ManifestName]).ok
        /\ LET manifest == JsonParse(disk[ManifestName]).val
           IN  ~(JsonTruthy(manifest) /\ manifest.hasDeps)
        /\ log' = Append(log, Event("rewriteRead", 0, <<>>, project.dir))
        /\ pc' = "install"
        /\ UNCHANGED <<disk, result>>
     \/ \* the replacements are applied and the manifest is written back
        /\ workspaceReplacements # NoDeps
        /\ ManifestName \in DOMAIN disk
        /\ JsonParse(disk[ManifestName]).ok
        /\ LET manifest == JsonParse(disk[ManifestName]).val
           IN  /\ JsonTruthy(manifest) /\ manifest.hasDeps
               /\ \E writeOk \in BOOLEAN :
                    IF writeOk
                    THEN /\ disk' = WriteFile(disk, ManifestName,
                                      JsonStringify(ApplyReplacements(manifest,
                                                      workspaceReplacements)))
                         /\ log' = Append(Append(log,
                                     Event("rewriteRead", 0, <<>>, project.dir)),
                                     Event("rewriteWrite", 0, <<>>, project.dir))
                         /\ pc' = "install"
                         /\ UNCHANGED result
                    ELSE /\ log' = Append(log, Event("rewriteRead", 0, <<>>, project.dir))
                         /\ pc' = "failed"
                         /\ result' = Failure(PlatformError("write"), "rewrite write")
                         /\ UNCHANGED disk
  /\ UNCHANGED <<clock, params, config, template, packageJsonResult, project,
                 linkIdx, workspaceReplacements, made, invoked, configInput>>
  /\ UNCHANGED handleVars
  /\ UNCHANGED layoutVars

\* mutant: the install command is issued whatever the install flag
Install_Always ==
  /\ pc = "install"
  /\ log' = Append(log, Event("command", 0, PnpmLine(InstallCommand),
                              project.packageManagerCwd))
  /\ \E ok \in BOOLEAN :
       IF ok
       THEN /\ pc' = "done"
            /\ result' = Success
       ELSE /\ pc' = "failed"
            /\ result' = Failure(FileSystemError("command execution"), "install")
  /\ UNCHANGED <<clock, params, config, template, disk, packageJsonResult, project,
                 linkIdx, workspaceReplacements, made, invoked, configInput>>
  /\ UNCHANGED handleVars
  /\ UNCHANGED layoutVars

\* `if (config.package.install) { ... }` and `return project`
Install ==
  /\ pc = "install"
  /\ IF config.package.install
     THEN /\ log' = Append(log, Event("command", 0, PnpmLine(InstallCommand),
                                      project.packageManagerCwd))
          /\ \E ok \in BOOLEAN :
               IF ok
               THEN /\ pc' = "done"
                    /\ result' = Success
               ELSE /\ pc' = "failed"
                    /\ result' = Failure(FileSystemError("command execution"), "install")
     ELSE /\ pc' = "done"
          /\ result' = Success
          /\ UNCHANGED log
  /\ UNCHANGED <<clock, params, config, template, disk, packageJsonResult, project,
                 linkIdx, workspaceReplacements, made, invoked, configInput>>
  /\ UNCHANGED handleVars
  /\ UNCHANGED layoutVars

\* the caller has its answer; the next call starts from a fresh frame
Return ==
  /\ pc \in {"done", "failed"}
  /\ pc' = "idle"
  /\ params' = NoParams
  /\ config' = NoConfig
  /\ template' = NoFiles
  /\ disk' = NoFiles
  /\ packageJsonResult' = JsonNull
  /\ project' = NoProject
  /\ linkIdx' = 0
  /\ workspaceReplacements' = NoDeps
  /\ log' = <<>>
  /\ result' = Pending
  /\ invoked' = <<>>
  /\ UNCHANGED <<clock, made, configInput>>
  /\ UNCHANGED handleVars
  /\ UNCHANGED layoutVars

Next ==
  \/ Call
  \/ Scaffold
  \/ LoadManifest
  \/ AssembleHandle
  \/ LinkStep
  \/ WorkspaceRewrite
  \/ Install

Spec == Init /\ [][Next]_vars

\* several calls in a row, the clock advancing between them
NextCalls ==
  \/ Next
  \/ Tick
  \/ Return

SpecCalls == Init /\ [][NextCalls]_vars

\* another writer replaces the manifest while the link loop runs
ConcurrentWrite ==
  /\ pc = "links"
  /\ \E text \in {Garbage, JsonStringify(JsonObject(TemplateScalars, FALSE, NoDeps))} :
       /\ ManifestName \in DOMAIN disk
       /\ disk[ManifestName] # text
       /\ disk' = WriteFile(disk, ManifestName, text)
  /\ UNCHANGED <<pc, clock, params, config, template, packageJsonResult, project,
                 linkIdx, workspaceReplacements, log, result, made, invoked,
                 configInput>>
  /\ UNCHANGED handleVars
  /\ UNCHANGED layoutVars

NextShared ==
  \/ Next
  \/ ConcurrentWrite

SpecShared == Init /\ [][NextShared]_vars

\* the inputs of the resolver examined alone: links play no part in it
ResolverPackageInputs == {p \in PackageInputs : Links(p) = <<>>}

InitResolver ==
  /\ pc = "idle"
  /\ clock \in 0..MaxClock
  /\ configInput \in [directory : DirectoryInputs, scaffold : ScaffoldInputs,
                       package : ResolverPackageInputs]
  /\ params = NoParams
  /\ config = NoConfig
  /\ template = NoFiles
  /\ disk = NoFiles
  /\ packageJsonResult = JsonNull
  /\ project = NoProject
  /\ linkIdx = 0
  /\ workspaceReplacements = NoDeps
  /\ log = <<>>
  /\ result = Pending
  /\ made = <<>>
  /\ invoked = <<>>
  /\ shellProcesses = <<>>
  /\ processes = <<>>
  /\ stops = <<>>
  /\ layoutCall = NoLayoutCall
  /\ layoutFs = {}
  /\ layoutResult = LayoutPending

\* resolveConfigInput(configInput); a failure names the part that failed
Resolve ==
  /\ pc = "idle"
  /\ \E mkdirOk \in (IF Truthy(configInput.directory) THEN {TRUE} ELSE BOOLEAN) :
       LET r == resolveConfigInput(configInput.directory, configInput.scaffold,
                                   configInput.package, clock, mkdirOk)
           part == IF ResolveScaffold(configInput.scaffold).ok
                   THEN "directory" ELSE "scaffold"
       IN  /\ pc' = IF r.ok THEN "resolved" ELSE "failed"
           /\ config' = r.config
           /\ result' = IF r.ok THEN Pending ELSE Failure(r.error, part)
           /\ made' = IF r.synthesized
                      THEN Append(made, EncodeSync(r.config.directory))
                      ELSE made
  /\ UNCHANGED <<clock, params, template, disk, packageJsonResult, project,
                 linkIdx, workspaceReplacements, log, invoked, configInput>>
  /\ UNCHANGED handleVars
  /\ UNCHANGED layoutVars

SpecResolver == InitResolver /\ [][Resolve]_vars

----------------------------------------------------------------------------
(* Promise variant: the handle's subprocess registry and `stop` *)

\* `shellWrapped({ prefix: 'pnpm ' })`: zx returns a new Shell for an options
\* object, and shellWrapped pushes whatever `shell(...)` returned
ShellEntry == [kind |-> "shell", id |-> 0]
\* the ProcessPromise of the subprocess `id`
ProcessEntry(id) == [kind |-> "process", id |-> id]

Process(via, state) == [via |-> via, state |-> state, kills |-> 0]

\* the process entries among the first n entries of the registry
Registered(n) ==
  {shellProcesses[j].id : j \in {k \in 1..n : shellProcesses[k].kind = "process"}}

\* mutant: Promise.all, which rejects as soon as one callback rejects
Settle_All(rejected) == IF rejected = {} THEN "fulfilled" ELSE "rejected"

\* Promise.allSettled: fulfilled whatever the callbacks did
Settle(rejected) == "fulfilled"

\* the handle as create returns it when no package manager command ran
InitHandle ==
  /\ pc = "handle"
  /\ clock = 0
  /\ params = NoParams
  /\ config = NoConfig
  /\ template = NoFiles
  /\ disk = NoFiles
  /\ packageJsonResult = JsonNull
  /\ project = NoProject
  /\ linkIdx = 0
  /\ workspaceReplacements = NoDeps
  /\ log = <<>>
  /\ result = Success
  /\ made = <<>>
  /\ invoked = <<>>
  /\ configInput = NoConfigInput
  /\ shellProcesses = <<ShellEntry>>
  /\ processes = <<>>
  /\ stops = <<>>
  /\ layoutCall = NoLayoutCall
  /\ layoutFs = {}
  /\ layoutResult = LayoutPending

createVars == <<pc, clock, params, config, template, disk, packageJsonResult,
                project, linkIdx, workspaceReplacements, log, result, made,
                invoked, configInput>>

\* project.shell`...`: shellWrapped spawns and pushes the ProcessPromise; the
\* caller may halt it before it starts
ShellSpawn ==
  /\ pc = "handle"
  /\ Len(processes) < MaxProcesses
  /\ \E state \in {"running", "halted"} :
       processes' = Append(processes, Process("shell", state))
  /\ shellProcesses' = Append(shellProcesses, ProcessEntry(Len(processes) + 1))
  /\ UNCHANGED <<stops, createVars>>
  /\ UNCHANGED layoutVars

\* project.packageManager`...`: pnpmShell is the Shell zx returned, not
\* shellWrapped, so nothing is pushed
PackageManagerSpawn ==
  /\ pc = "handle"
  /\ Len(processes) < MaxProcesses
  /\ processes' = Append(processes, Process("packageManager", "running"))
  /\ UNCHANGED <<shellProcesses, stops, createVars>>
  /\ UNCHANGED layoutVars

\* a subprocess finishes by itself
ProcessExit ==
  /\ pc = "handle"
  /\ \E i \in 1..Len(processes) :
       /\ processes[i].state = "running"
       /\ processes' = [processes EXCEPT ![i].state = "exited"]
  /\ UNCHANGED <<shellProcesses, stops, createVars>>
  /\ UNCHANGED layoutVars

\* project.stop(): one async callback per registry entry, all started by the
\* same `map`; a callback returns for a halted process and awaits p.kill()
\* otherwise; the Shell entry has no isHalted, its callback rejects
Stop ==
  /\ pc = "handle"
  /\ Len(stops) < MaxStops
  /\ LET n == Len(shellProcesses)
         skipped == {i \in Registered(n) : processes[i].state = "halted"}
         requested == Registered(n) \ skipped
         noIsHalted == {j \in 1..n : shellProcesses[j].kind = "shell"}
     IN  \E failing \in SUBSET requested :
           /\ processes' =
                [i \in 1..Len(processes) |->
                   IF i \in requested
                   THEN [processes[i] EXCEPT
                           !.kills = @ + 1,
                           !.state = IF i \in failing THEN @ ELSE "exited"]
                   ELSE processes[i]]
           /\ stops' = Append(stops,
                [settled |-> Settle(noIsHalted \cup
                                     {j \in 1..n : shellProcesses[j].kind = "process"
                                                    /\ shellProcesses[j].id \in failing}),
                 entries |-> n,
                 requested |-> requested,
                 failed |-> failing,
                 running |-> {i \in 1..Len(processes) :
                                processes[i].state = "running"}])
  /\ UNCHANGED <<shellProcesses, createVars>>
  /\ UNCHANGED layoutVars

NextHandle ==
  \/ ShellSpawn
  \/ PackageManagerSpawn
  \/ ProcessExit
  \/ Stop

SpecHandle == InitHandle /\ [][NextHandle]_vars

----------------------------------------------------------------------------
(* Using the handle *)

\* mutant: the command runs in the working directory of the calling process
runShellCommand_Inherited(cwd, command) == [sh |-> command, cwd |-> <<Sep>>]

\* sh -c command, with Command.workingDirectory(FsLoc.encodeSync(cwd))
runShellCommand(cwd, command) == [sh |-> command, cwd |-> EncodeSync(cwd)]

\* runShellCommand(cwd)(`pnpm ${command}`)
runPackageManagerCommand(cwd, command) == runShellCommand(cwd, PnpmLine(command))

ShellCommands == {<<"pwd">>, <<"cd", " ", Sep, "tmp", "&&", "pwd">>}

PackageManagerCommands == {InstallCommand, <<"test">>}

\* project.shell(command), called by the owner of the handle
HandleShell ==
  /\ pc = "done"
  /\ Len(processes) < MaxProcesses
  /\ \E command \in ShellCommands :
       LET run == runShellCommand(project.shellCwd, command)
       IN  processes' = Append(processes, [via |-> "shell", arg |-> command,
                                           sh |-> run.sh, cwd |-> run.cwd])
  /\ UNCHANGED <<createVars, shellProcesses, stops>>
  /\ UNCHANGED layoutVars

\* project.packageManager(command), called by the owner of the handle
HandlePackageManager ==
  /\ pc = "done"
  /\ Len(processes) < MaxProcesses
  /\ \E command \in PackageManagerCommands :
       LET run == runPackageManagerCommand(project.packageManagerCwd, command)
       IN  processes' = Append(processes, [via |-> "packageManager", arg |-> command,
                                           sh |-> run.sh, cwd |-> run.cwd])
  /\ UNCHANGED <<createVars, shellProcesses, stops>>
  /\ UNCHANGED layoutVars

NextUse ==
  \/ Next
  \/ HandleShell
  \/ HandlePackageManager

SpecUse == Init /\ [][NextUse]_vars

----------------------------------------------------------------------------
(* Layout: set *)

InitLayout ==
  /\ pc = "layout"
  /\ clock = 0
  /\ params = NoParams
  /\ config = NoConfig
  /\ template = NoFiles
  /\ disk = NoFiles
  /\ packageJsonResult = JsonNull
  /\ project = NoProject
  /\ linkIdx = 0
  /\ workspaceReplacements = NoDeps
  /\ log = <<>>
  /\ result = Pending
  /\ made = <<>>
  /\ invoked = <<>>
  /\ configInput = NoConfigInput
  /\ shellProcesses = <<>>
  /\ processes = <<>>
  /\ stops = <<>>
  /\ layoutCall \in {[directory |-> [segments |-> ProjectRoot], layout |-> l] :
                       l \in Layouts}
  /\ layoutFs = {}
  /\ layoutResult = LayoutPending

\* set($layout): the entries of the flattened layout are written one after
\* the other (Effect.all, sequential); the first entry whose path does not
\* decode, whose directory cannot be made or whose write fails ends the call
LayoutSet ==
  /\ pc = "layout"
  /\ layoutResult.status = "pending"
  /\ LET entries == flattenTree(layoutCall.layout.fields, <<>>)
     IN  \E n \in 0..Len(entries) :
           /\ layoutFs' = WriteEntries(layoutFs, layoutCall.directory,
                                       SubSeq(entries, 1, n))
           /\ layoutResult' = IF n = Len(entries)
                              THEN LayoutReturned(layoutCall.layout)
                              ELSE LayoutError
  /\ UNCHANGED <<createVars, handleVars, layoutCall>>

SpecLayout == InitLayout /\ [][LayoutSet]_vars

----------------------------------------------------------------------------
(* Promise variant: create *)

\* a rejected promise: the thrown value is not one of the typed errors
Rejected(what) == [kind |-> "Rejected", detail |-> <<what>>]

\* what Fs.makeTemporaryDirectory returns
TemporaryDirectory == [segments |-> <<"tmp", "projector-tmp">>]

\* the Promise variant takes plain strings only
PromiseDirectoryInputs == {Undefined, Str(<<Sep, "tmp", Sep, "p">>)}

PromiseScaffoldInputs ==
  {Undefined, Str(<<Sep, "tpl">>), ScaffoldInit, ScaffoldTemplateStr(<<Sep, "tpl">>)}

PromiseLinkRequests ==
  { [dir |-> Str(<<Sep, "tmp", Sep, "mylib">>), protocol |-> "link"],
    [dir |-> Str(<<Sep, "tmp", Sep, "mylib">>), protocol |-> "file"],
    [dir |-> Str(<<Sep, "tmp", Sep, "p", Sep, "lib">>), protocol |-> "link"] }

PromiseLinkLists == UNION {[1..n -> PromiseLinkRequests] : n \in 0..MaxLinks}

PromisePackageInputs ==
  {PackageUndefined, PackageFalse}
    \cup {PackageObject(i, TRUE, l) : i \in {"undefined", "true"}, l \in PromiseLinkLists}

\* the scaffold of the Promise variant's resolveConfigInput: a string is a
\* template directory, taken as it is
PromiseResolveScaffold(scaffold) ==
  IF scaffold.t = "string" THEN TemplateScaffold([segments |-> Segments(scaffold.s)])
  ELSE IF scaffold.t = "object" /\ scaffold.type = "template"
  THEN TemplateScaffold([segments |-> Segments(scaffold.s)])
  ELSE InitScaffold

\* configInput.directory ?? await Fs.makeTemporaryDirectory()
PromiseResolveDirectory(directory) ==
  IF directory.t = "undefined" THEN TemporaryDirectory
  ELSE [segments |-> Segments(directory.s)]

\* Path.basename(link.dir)
Basename(dir) ==
  LET segs == Segments(dir.s)
  IN  IF segs = <<>> THEN "" ELSE segs[Len(segs)]

RECURSIVE CommonPrefixLen(_, _)
CommonPrefixLen(a, b) ==
  IF a = <<>> \/ b = <<>> \/ Head(a) # Head(b) THEN 0
  ELSE 1 + CommonPrefixLen(Tail(a), Tail(b))

\* Path.relative(from, to), as segments
PathRelative(from, to) ==
  LET c == CommonPrefixLen(from, to)
  IN  [i \in 1..(Len(from) - c) |-> ".."] \o SubSeq(to, c + 1, Len(to))

RECURSIVE JoinSegs(_)
JoinSegs(segs) ==
  IF segs = <<>> THEN <<>>
  ELSE IF Len(segs) = 1 THEN segs
  ELSE <<Head(segs), Sep>> \o JoinSegs(Tail(segs))

\* Path.join(`..`, Path.relative(project.layout.cwd, link.dir))
PromisePathToLinkDir(cwd, link) ==
  JoinSegs(<<"..">> \o PathRelative(cwd.segments, Segments(link.dir.s)))

\* the loop at 567-576: the requests whose dependency is `workspace:*`
RECURSIVE PromiseReplacements(_, _, _)
PromiseReplacements(links, manifest, cwd) ==
  IF links = <<>> THEN NoDeps
  ELSE LET last == links[Len(links)]
           before == PromiseReplacements(SubSeq(links, 1, Len(links) - 1), manifest, cwd)
       IN  IF IsWorkspaceDep(manifest, Basename(last.dir))
           THEN QueueReplacement(before, Basename(last.dir),
                                 Specifier(last.protocol, PromisePathToLinkDir(cwd, last)))
           ELSE before

\* create is called: resolveConfigInput
PromiseCall ==
  /\ pc = "idle"
  /\ \E directory \in PromiseDirectoryInputs, scaffold \in PromiseScaffoldInputs,
        package \in PromisePackageInputs, scripts \in BOOLEAN, mkdirOk \in BOOLEAN :
       IF directory.t = "undefined" /\ ~mkdirOk
       THEN /\ pc' = "failed"
            /\ result' = Failure(Rejected("makeTemporaryDirectory"), "resolve")
            /\ UNCHANGED <<config, params, disk, template>>
       ELSE \E pre \in (IF directory.t = "undefined" THEN {NoFiles} ELSE PreexistingFiles),
               tmpl \in (IF PromiseResolveScaffold(scaffold).type = "template"
                         THEN TemplateFiles ELSE {NoFiles}) :
              /\ pc' = "scaffold"
              /\ config' = [directory |-> PromiseResolveDirectory(directory),
                            scaffold |-> PromiseResolveScaffold(scaffold),
                            package |-> [enabled |-> ResolveEnabled(package),
                                         install |-> ResolveInstall(package)]]
              /\ params' = [directory |-> directory, package |-> package,
                            links |-> Links(package), scripts |-> scripts]
              /\ disk' = pre
              /\ template' = tmpl
              /\ UNCHANGED result
  /\ UNCHANGED <<clock, packageJsonResult, project, linkIdx, workspaceReplacements,
                 log, made, invoked, configInput, handleVars>>
  /\ UNCHANGED layoutVars

\* Fs.copyDir or fsr.write of the init manifest
PromiseScaffold ==
  /\ pc = "scaffold"
  /\ \E ok \in BOOLEAN :
       IF ok
       THEN /\ disk' = IF config.scaffold.type = "template"
                       THEN CopyTree(template, disk)
                       ELSE WriteFile(disk, ManifestName, JsonStringify(InitManifest))
            /\ log' = Append(log, Event("scaffold", 0, <<>>, config.directory))
            /\ pc' = "load"
            /\ UNCHANGED result
       ELSE /\ pc' = "failed"
            /\ result' = Failure(Rejected("scaffold"), "scaffold")
            /\ UNCHANGED <<disk, log>>
  /\ UNCHANGED <<clock, params, config, template, packageJsonResult, project,
                 linkIdx, workspaceReplacements, made, invoked, configInput,
                 handleVars>>
  /\ UNCHANGED layoutVars

\* Manifest.resource.read and the `Language.never` presence check; reading
\* text that is not JSON either yields undefined or rejects
PromiseLoad ==
  /\ pc = "load"
  /\ LET present == ManifestName \in DOMAIN disk
         parses == present /\ JsonParse(disk[ManifestName]).ok
     IN  \E readOk \in (IF present /\ ~parses THEN BOOLEAN ELSE {TRUE}) :
           IF ~readOk
           THEN /\ pc' = "failed"
                /\ result' = Failure(Rejected("Manifest.resource.read"), "load")
                /\ UNCHANGED <<packageJsonResult, log>>
           ELSE LET loaded == IF parses THEN JsonParse(disk[ManifestName]).val
                              ELSE JsonNull
                IN  /\ packageJsonResult' = loaded
                    /\ log' = Append(log, Event("load", 0, <<>>, config.directory))
                    /\ IF config.package.enabled /\ ~JsonTruthy(loaded)
                       THEN /\ pc' = "failed"
                            /\ result' = Failure(Rejected("packageJson missing"), "load")
                       ELSE /\ pc' = "assemble"
                            /\ UNCHANGED result
  /\ UNCHANGED <<clock, params, config, template, disk, project, linkIdx,
                 workspaceReplacements, made, invoked, configInput, handleVars>>
  /\ UNCHANGED layoutVars

\* the shells, the registry, the handle and the script factory
PromiseAssemble ==
  /\ pc = "assemble"
  /\ shellProcesses' = <<ShellEntry>>
  /\ LET handle == [assembled |-> TRUE,
                    dir |-> config.directory,
                    shellCwd |-> config.directory,
                    packageManagerCwd |-> config.directory,
                    files |-> [some |-> JsonTruthy(packageJsonResult),
                               val |-> packageJsonResult],
                    run |-> "unset"]
     IN  /\ project' = [handle EXCEPT
                          !.run = IF params.scripts THEN "scripts" ELSE "empty"]
         /\ invoked' = IF params.scripts THEN Append(invoked, handle) ELSE invoked
  /\ log' = IF params.scripts
            THEN Append(log, Event("factory", 0, <<>>, config.directory))
            ELSE log
  /\ pc' = "rewrite"
  /\ UNCHANGED <<clock, params, config, template, disk, packageJsonResult,
                 linkIdx, workspaceReplacements, result, made, configInput,
                 processes, stops>>
  /\ UNCHANGED layoutVars

\* `if (packageJson) { ... Manifest.resource.update(...) }`
PromiseRewrite ==
  /\ pc = "rewrite"
  /\ LET replacements ==
           IF JsonTruthy(packageJsonResult)
           THEN PromiseReplacements(params.links, packageJsonResult, project.dir)
           ELSE NoDeps
     IN  /\ workspaceReplacements' = replacements
         /\ IF replacements = NoDeps
            THEN /\ pc' = "adds"
                 /\ UNCHANGED <<disk, log, result>>
            ELSE \E ok \in (IF DiskManifestIsObject(disk) THEN BOOLEAN ELSE {FALSE}) :
                   IF ok
                   THEN LET manifest == JsonParse(disk[ManifestName]).val
                        IN  /\ disk' = WriteFile(disk, ManifestName,
                                         JsonStringify(
                                           IF manifest.hasDeps
                                           THEN ApplyReplacements(manifest, replacements)
                                           ELSE manifest))
                            /\ log' = Append(log, Event("rewriteWrite", 0, <<>>,
                                                        project.dir))
                            /\ pc' = "adds"
                            /\ UNCHANGED result
                   ELSE /\ pc' = "failed"
                        /\ result' = Failure(Rejected("Manifest.resource.update"),
                                             "rewrite write")
                        /\ UNCHANGED <<disk, log>>
  /\ UNCHANGED <<clock, params, config, template, packageJsonResult, project,
                 linkIdx, made, invoked, configInput, handleVars>>
  /\ UNCHANGED layoutVars

\* mutant: a request whose dependency was rewritten gets no add command
PromiseAdd_SkipRewritten ==
  /\ pc = "adds"
  /\ linkIdx < Len(params.links)
  /\ LET i == linkIdx + 1
         link == params.links[i]
         path == PromisePathToLinkDir(project.dir, link)
     IN  IF Basename(link.dir) \in DOMAIN workspaceReplacements
         THEN /\ linkIdx' = i
              /\ UNCHANGED <<log, processes, disk, pc, result>>
         ELSE /\ log' = Append(log, Event("command", i,
                                          PnpmLine(AddCommand(link.protocol, path)),
                                          project.packageManagerCwd))
              /\ processes' = Append(processes, Process("packageManager", "exited"))
              /\ \E ok \in (IF DiskManifestIsObject(disk) THEN BOOLEAN ELSE {FALSE}) :
                   IF ok
                   THEN /\ disk' = PnpmAdd(disk, Basename(link.dir),
                                           Specifier(link.protocol, path))
                        /\ linkIdx' = i
                        /\ UNCHANGED <<pc, result>>
                   ELSE /\ pc' = "failed"
                        /\ result' = Failure(Rejected("pnpm add"), "link")
                        /\ UNCHANGED <<linkIdx, disk>>
  /\ UNCHANGED <<clock, params, config, template, packageJsonResult, project,
                 workspaceReplacements, made, invoked, configInput,
                 shellProcesses, stops>>
  /\ UNCHANGED layoutVars

\* one iteration of the second loop: `add` through project.packageManager,
\* awaited, so the subprocess has exited when the loop goes on
PromiseAdd ==
  /\ pc = "adds"
  /\ linkIdx < Len(params.links)
  /\ LET i == linkIdx + 1
         link == params.links[i]
         path == PromisePathToLinkDir(project.dir, link)
     IN  /\ log' = Append(log, Event("command", i,
                                     PnpmLine(AddCommand(link.protocol, path)),
                                     project.packageManagerCwd))
         /\ processes' = Append(processes, Process("packageManager", "exited"))
         /\ \E ok \in (IF DiskManifestIsObject(disk) THEN BOOLEAN ELSE {FALSE}) :
              IF ok
              THEN /\ disk' = PnpmAdd(disk, Basename(link.dir),
                                      Specifier(link.protocol, path))
                   /\ linkIdx' = i
                   /\ UNCHANGED <<pc, result>>
              ELSE /\ pc' = "failed"
                   /\ result' = Failure(Rejected("pnpm add"), "link")
                   /\ UNCHANGED <<linkIdx, disk>>
  /\ UNCHANGED <<clock, params, config, template, packageJsonResult, project,
                 workspaceReplacements, made, invoked, configInput,
                 shellProcesses, stops>>
  /\ UNCHANGED layoutVars

\* `if (config.package.install) { ... }` and `return project`
PromiseInstall ==
  /\ pc = "adds"
  /\ linkIdx = Len(params.links)
  /\ IF config.package.install
     THEN /\ log' = Append(log, Event("command", 0, PnpmLine(InstallCommand),
                                      project.packageManagerCwd))
          /\ processes' = Append(processes, Process("packageManager", "exited"))
          /\ \E ok \in BOOLEAN :
               IF ok
               THEN /\ pc' = "handle"
                    /\ result' = Success
               ELSE /\ pc' = "failed"
                    /\ result' = Failure(Rejected("pnpm install"), "install")
     ELSE /\ pc' = "handle"
          /\ result' = Success
          /\ UNCHANGED <<log, processes>>
  /\ UNCHANGED <<clock, params, config, template, disk, packageJsonResult, project,
                 linkIdx, workspaceReplacements, made, invoked, configInput,
                 shellProcesses, stops>>
  /\ UNCHANGED layoutVars

NextPromise ==
  \/ PromiseCall
  \/ PromiseScaffold
  \/ PromiseLoad
  \/ PromiseAssemble
  \/ PromiseRewrite
  \/ PromiseAdd
  \/ PromiseInstall

SpecPromise == Init /\ [][NextPromise]_vars

----------------------------------------------------------------------------
(* Reading the history *)

Steps == 1..Len(log)

IsCommand(e) == e.ev = "command"
IsAdd(e) == e.ev = "command" /\ Len(e.sh) >= 3 /\ e.sh[3] = "add"
IsInstall(e) == e.ev = "command" /\ e.sh = <<"pnpm", " ", "install">>
IsQueue(e) == e.ev = "queue"
IsManifestWrite(e) == e.ev = "rewriteWrite"
IsFactory(e) == e.ev = "factory"
IsInitOperation(e) == e.ev \in {"queue", "command", "rewriteRead", "rewriteWrite"}

QueuedAt(i) == {k \in Steps : IsQueue(log[k]) /\ log[k].link = i}
AddedAt(i) == {k \in Steps : IsAdd(log[k]) /\ log[k].link = i}

Requests == 1..Len(params.links)

\* the package name of request i: the final path segment of its target
RequestName(i) ==
  LET segs == LinkDir(params.links[i]).dir.segments
  IN  IF segs = <<>> THEN "unknown" ELSE segs[Len(segs)]

\* "<protocol>:<relativePath>" of request i
RequestSpecifier(i) ==
  Specifier(params.links[i].protocol,
            PathToLinkDirFromProject(config.directory, LinkDir(params.links[i]).dir))

\* the loaded manifest's dependencies[name] is exactly "workspace:*"
LoadedAsWorkspace(name) ==
  /\ packageJsonResult.ty = "object"
  /\ packageJsonResult.hasDeps
  /\ name \in DOMAIN packageJsonResult.deps
  /\ packageJsonResult.deps[name] = <<"workspace", ":", "*">>

\* the dependencies of the manifest now on disk
DiskDeps ==
  IF DiskManifestIsObject(disk) THEN JsonParse(disk[ManifestName]).val.deps ELSE NoDeps

----------------------------------------------------------------------------
(* Claims *)

\* C1: once a rewrite has been queued, the manifest write that persists it
\* comes before every package-manager command issued afterwards: no command
\* is issued while a queued rewrite is still unpersisted.
C1_RewritePersistedBeforeCommand ==
  \A k \in Steps :
    IsCommand(log[k]) =>
      \A j \in 1..(k - 1) :
        IsQueue(log[j]) => \E w \in (j + 1)..(k - 1) : IsManifestWrite(log[w])

\* C2: when the rewrite queue is nonempty and install is enabled, the write
\* applying every queued rewrite comes before the install command, and
\* install is never issued while the manifest on disk still holds
\* "workspace:*" for a queued name.
C2_RewriteBeforeInstall ==
  \A k \in Steps :
    (IsInstall(log[k]) /\ workspaceReplacements # NoDeps) =>
      /\ \E w \in 1..(k - 1) : IsManifestWrite(log[w])
      /\ \A n \in DOMAIN workspaceReplacements :
           /\ n \in DOMAIN DiskDeps
           /\ DiskDeps[n] # WorkspaceStar
           /\ DiskDeps[n] = workspaceReplacements[n]

C2_Witness ==
  /\ \E k \in Steps : IsInstall(log[k])
  /\ workspaceReplacements # NoDeps
  /\ pc = "done"

\* C3 as stated: every link request of a call that reached the link loop
\* ends with exactly one decision, queued or added, never neither.
C3_EveryRequestDecided ==
  (pc \in {"done", "failed"} /\ project.assembled) =>
    \A i \in Requests : Cardinality(QueuedAt(i)) + Cardinality(AddedAt(i)) = 1

\* C3 amended: every link request the loop has taken up with a target that
\* decodes gets exactly one decision: it is queued iff the loaded manifest's
\* dependencies[name] is exactly "workspace:*", and otherwise exactly one
\* `add <protocol>:<relativePath>` is issued for it; no add is issued for a
\* queued request, and a request the loop never reached gets neither.
C3_ProcessedRequestDecidedOnce ==
  \A i \in Requests :
    /\ Cardinality(QueuedAt(i)) + Cardinality(AddedAt(i)) <= 1
    /\ i <= linkIdx => Cardinality(QueuedAt(i)) + Cardinality(AddedAt(i)) = 1
    /\ QueuedAt(i) # {} =>
         /\ LinkDir(params.links[i]).ok
         /\ LoadedAsWorkspace(RequestName(i))
         /\ RequestName(i) \in DOMAIN workspaceReplacements
    /\ AddedAt(i) # {} =>
         /\ LinkDir(params.links[i]).ok
         /\ ~LoadedAsWorkspace(RequestName(i))
         /\ \A k \in AddedAt(i) :
              log[k].sh = <<"pnpm", " ", "add", " ">> \o RequestSpecifier(i)
    /\ (QueuedAt(i) = {} /\ AddedAt(i) = {}) =>
         \/ i > linkIdx + 1
         \/ /\ i = linkIdx + 1
            /\ result.step = "link" => ~LinkDir(params.links[i]).ok

C3_Witness ==
  /\ pc = "done"
  /\ \E i, j \in Requests : QueuedAt(i) # {} /\ AddedAt(j) # {}

\* C4 as stated: after a successful create, for every request whose name
\* matches a "workspace:*" entry, the manifest on disk holds the specifier
\* computed from that same request.
C4_EveryMatchedRequestPersisted ==
  result.status = "handle" =>
    \A i \in Requests :
      LoadedAsWorkspace(RequestName(i)) =>
        /\ RequestName(i) \in DOMAIN DiskDeps
        /\ DiskDeps[RequestName(i)] = RequestSpecifier(i)

\* C4 amended: after a successful create, for every name matching a
\* "workspace:*" entry, the manifest on disk holds the specifier computed
\* from the last request in the list with that name.
C4_LastMatchedRequestPersisted ==
  result.status = "handle" =>
    \A i \in Requests :
      (/\ LoadedAsWorkspace(RequestName(i))
       /\ \A j \in Requests : j > i => RequestName(j) # RequestName(i)) =>
        /\ RequestName(i) \in DOMAIN DiskDeps
        /\ DiskDeps[RequestName(i)] = RequestSpecifier(i)

C4_Witness ==
  /\ result.status = "handle"
  /\ \E i, j \in Requests :
       /\ i < j
       /\ RequestName(i) = RequestName(j)
       /\ LoadedAsWorkspace(RequestName(i))
       /\ RequestSpecifier(i) # RequestSpecifier(j)

\* C5: with package management enabled and no manifest at <root>/package.json
\* after scaffolding, create fails with PackageJsonMissingError naming the
\* project root and returns no handle, before the script factory is invoked
\* and before any link decision, add command, manifest rewrite or install.
C5_MissingManifestFailsFirst ==
  (/\ \E k \in Steps : log[k].ev = "load"
   /\ config.package.enabled
   /\ ManifestName \notin DOMAIN disk) =>
    /\ pc = "failed"
    /\ result.status = "error"
    /\ result.error.kind = "PackageJsonMissingError"
    /\ result.error.detail = <<"/">> \o EncodeSegs(config.directory.segments)
    /\ ~project.assembled
    /\ project.run = "unset"
    /\ workspaceReplacements = NoDeps
    /\ \A k \in Steps : ~IsFactory(log[k]) /\ ~IsInitOperation(log[k])

C5_Witness ==
  /\ pc = "failed"
  /\ result.error.kind = "PackageJsonMissingError"
  /\ ManifestName \notin DOMAIN disk
  /\ params.scripts
  /\ params.links # <<>>
  /\ config.package.install

\* the scenario of C6: project root /tmp/p/, target "/tmp/mylib/", protocol link
C6_Scenario(i) ==
  /\ config.directory.segments = <<"tmp", "p">>
  /\ params.links[i] = [dir |-> Str(<<"/", "tmp", "/", "mylib", "/">>), protocol |-> "link"]

\* C6: for project root /tmp/p/ and link target /tmp/mylib/ with protocol
\* link the specifier is link:../mylib: the command issued is
\* `add link:../mylib`, and a queued rewrite leaves mylib: "link:../mylib"
\* in the final manifest.
C6_SiblingSpecifier ==
  \A i \in Requests :
    C6_Scenario(i) =>
      /\ \A k \in AddedAt(i) :
           log[k].sh = <<"pnpm", " ", "add", " ", "link", ":", "..", "/", "mylib">>
      /\ (QueuedAt(i) # {} /\ result.status = "handle" /\ Len(params.links) = 1) =>
           DiskDeps["mylib"] = <<"link", ":", "..", "/", "mylib">>

\* C7: any two creation calls with `directory` omitted synthesize different
\* project root paths.
C7_SynthesizedRootsDiffer ==
  \A i, j \in 1..Len(made) : i # j => made[i] # made[j]

\* C8: every failure of create carries one of the three typed error kinds and
\* no handle; no run both returns a handle and reports an error.
C8_TypedFailureOrHandle ==
  /\ pc = "failed" =>
       /\ result.status = "error"
       /\ result.error.kind \in
            {"InvalidDirectoryError", "PackageJsonMissingError", "FileSystemError"}
  /\ pc = "done" => result.status = "handle" /\ result.error.kind = "none"
  /\ result.status = "handle" => pc = "done"

\* C9: with a nonempty rewrite queue, a manifest that cannot be read or
\* parsed at rewrite time makes create fail with FileSystemError, and no
\* manifest write and no install command follow.
C9_RewriteReadFailureIsFileSystemError ==
  (pc = "failed" /\ result.step \in {"rewrite read", "rewrite parse"}) =>
    /\ workspaceReplacements # NoDeps
    /\ result.error.kind = "FileSystemError"
    /\ \A k \in Steps : ~IsManifestWrite(log[k]) /\ ~IsInstall(log[k])

\* C10 as stated: the script factory is invoked as the last step of create,
\* after every link decision, add command, workspace rewrite and install.
C10_FactoryInvokedLast ==
  \A k \in Steps :
    IsFactory(log[k]) => \A j \in (k + 1)..Len(log) : ~IsInitOperation(log[j])

\* C10 amended: the script factory is invoked once, after Resolver, Scaffold
\* and Manifest Load and before every link decision, add command, workspace
\* rewrite and install of the call; those steps run only once the handle is
\* assembled and, when a factory is supplied, after its invocation.
C10_FactoryInvokedBeforeInit ==
  /\ Cardinality({k \in Steps : IsFactory(log[k])}) <= 1
  /\ \A k \in Steps :
       IsFactory(log[k]) =>
         /\ params.scripts
         /\ \E a, b \in 1..(k - 1) :
              a < b /\ log[a].ev = "scaffold" /\ log[b].ev = "load"
         /\ \A j \in 1..(k - 1) : ~IsInitOperation(log[j])
  /\ \A j \in Steps :
       IsInitOperation(log[j]) =>
         /\ project.assembled
         /\ params.scripts => \E k \in 1..(j - 1) : IsFactory(log[k])
  /\ (pc = "done" /\ params.scripts) => \E k \in Steps : IsFactory(log[k])

C10_Witness ==
  /\ pc = "done"
  /\ \E k \in Steps : IsFactory(log[k])
  /\ \E j \in Steps : IsQueue(log[j])
  /\ \E j \in Steps : IsAdd(log[j])
  /\ \E j \in Steps : IsManifestWrite(log[j])
  /\ \E j \in Steps : IsInstall(log[j])

\* C11: a supplied script factory is invoked exactly once, with a handle whose
\* shell, packageManager, files and dir are already populated and whose `run`
\* is not yet set; without a factory nothing is invoked and `run` is the
\* empty mapping.
C11_FactoryGetsPopulatedHandle ==
  /\ Len(invoked) <= 1
  /\ \A k \in 1..Len(invoked) :
       /\ params.scripts
       /\ invoked[k].dir = config.directory
       /\ invoked[k].shellCwd = config.directory
       /\ invoked[k].packageManagerCwd = config.directory
       /\ invoked[k].files = [some |-> packageJsonResult.ty # "null",
                              val |-> packageJsonResult]
       /\ invoked[k].run = "unset"
  /\ project.assembled =>
       IF params.scripts
       THEN Len(invoked) = 1 /\ project.run = "scripts"
       ELSE invoked = <<>> /\ project.run = "empty"
  /\ pc = "done" => project.assembled

C11_Witness ==
  /\ pc = "done"
  /\ params.scripts
  /\ Len(invoked) = 1
  /\ invoked[1].files.some
  /\ project.run = "scripts"

\* C12: once the rewriter has written the manifest, the manifest on the
\* returned handle agrees with the manifest on disk for every rewritten
\* dependency name.
C12_HandleManifestAgreesWithDisk ==
  (pc = "done" /\ \E k \in Steps : IsManifestWrite(log[k])) =>
    \A n \in DOMAIN workspaceReplacements :
      /\ project.files.some
      /\ n \in DOMAIN project.files.val.deps
      /\ n \in DOMAIN DiskDeps
      /\ project.files.val.deps[n] = DiskDeps[n]

\* positions of a call that has got past the scaffold step
AfterScaffold == {"load", "assemble", "links", "install", "done"}

\* { name: "project", packageManager: "pnpm@10.10.0" }
ProjectManifest ==
  [ty |-> "object",
   scalars |-> [f \in {"name", "packageManager"} |->
                  IF f = "name" THEN "project" ELSE "pnpm@10.10.0"],
   hasDeps |-> FALSE, deps |-> NoDeps]

C14_TemplateFilesIdentical ==
  (pc = "done" /\ config.scaffold.type = "template") =>
    \A f \in DOMAIN template : f \in DOMAIN disk /\ disk[f] = template[f]

\* C14 amended: past a template scaffold every file of the template is under
\* the project root; every file but package.json has the template's content;
\* package.json has it until an add command or the rewriter's write, and
\* keeps the template's other fields after them.
C14_TemplateFilesCopied ==
  (config.scaffold.type = "template" /\ pc \in AfterScaffold) =>
    \A f \in DOMAIN template :
      /\ f \in DOMAIN disk
      /\ f # ManifestName => disk[f] = template[f]
      /\ (f = ManifestName
            /\ \A k \in Steps : ~IsAdd(log[k]) /\ ~IsManifestWrite(log[k])) =>
           disk[f] = template[f]
      /\ (f = ManifestName /\ JsonParse(template[f]).ok
            /\ JsonTruthy(JsonParse(template[f]).val)) =>
           /\ DiskManifestIsObject(disk)
           /\ JsonParse(disk[f]).val.scalars = JsonParse(template[f]).val.scalars

C14_Witness ==
  /\ pc = "done"
  /\ config.scaffold.type = "template"
  /\ \E k \in Steps : IsManifestWrite(log[k])
  /\ \E k \in Steps : IsAdd(log[k])
  /\ DOMAIN template = {"index.js", ManifestName}
  /\ disk["index.js"] = template["index.js"]
  /\ disk[ManifestName] # template[ManifestName]

\* C15: a successful create on an Init scaffold returns a handle whose
\* manifest is present and equals { name: "project", packageManager:
\* "pnpm@10.10.0" } and whose project root is the supplied directory.
C15_InitHandle ==
  (pc = "done" /\ config.scaffold.type = "init") =>
    /\ project.files = [some |-> TRUE, val |-> ProjectManifest]
    /\ params.directory.t # "undefined" =>
         project.dir = IF params.directory.t = "string"
                       THEN DecodeAbsDir(params.directory.s).dir
                       ELSE params.directory.dir

\* C16: a `scaffold` that is a plain string, the empty string and "init"
\* included, resolves to Template with the decoded directory or fails with
\* InvalidDirectoryError; it never resolves to Init.
C16_StringScaffoldIsTemplate ==
  (pc # "idle" /\ configInput.scaffold.t = "string") =>
    LET d == DecodeAbsDir(configInput.scaffold.s)
    IN  /\ pc = "resolved" => d.ok /\ config.scaffold = TemplateScaffold(d.dir)
        /\ (pc = "failed" /\ result.step = "scaffold") =>
             result.error.kind = "InvalidDirectoryError"

\* C17: a `scaffold` that is not a string resolves as follows. Omitted: Init.
\* A structured absolute directory: Template with that directory. An object
\* of type "template": Template with its dir, decoded when it is a string,
\* InvalidDirectoryError when the decoding fails. Any other object, type
\* "init" included: Init.
C17_NonStringScaffold ==
  LET sc == configInput.scaffold
      failedHere == pc = "failed" /\ result.step = "scaffold"
      Yields(v) == ~failedHere /\ (pc = "resolved" => config.scaffold = v)
  IN  (pc # "idle" /\ sc.t # "string") =>
        /\ config.scaffold.type \in {"init", "template"}
        /\ CASE sc.t = "undefined" -> Yields([type |-> "init", dir |-> NoDir])
             [] sc.t = "absdir" -> Yields([type |-> "template", dir |-> sc.dir])
             [] sc.t = "object" /\ sc.type = "template" /\ ~sc.dirIsString ->
                  Yields([type |-> "template", dir |-> sc.dir])
             [] sc.t = "object" /\ sc.type = "template" /\ sc.dirIsString ->
                  IF DecodeAbsDir(sc.s).ok
                  THEN Yields([type |-> "template", dir |-> DecodeAbsDir(sc.s).dir])
                  ELSE failedHere /\ result.error = InvalidDirectoryError(sc.s)
             [] OTHER -> Yields([type |-> "init", dir |-> NoDir])

C17_Witness ==
  /\ pc = "resolved"
  /\ configInput.scaffold.t = "object"
  /\ configInput.scaffold.type = "template"
  /\ configInput.scaffold.dirIsString
  /\ config.scaffold = [type |-> "template", dir |-> [segments |-> <<"tpl">>]]

\* C18: a supplied `directory`, any string or a structured value, is the
\* directory the resolver returns, or the resolver fails with
\* InvalidDirectoryError; a temporary directory is synthesized only when
\* `directory` is omitted.
C18_SuppliedDirectoryIsUsed ==
  LET dIn == configInput.directory
      supplied == dIn.t # "undefined"
  IN  pc # "idle" =>
        /\ (supplied /\ pc = "resolved") =>
             IF dIn.t = "string"
             THEN DecodeAbsDir(dIn.s).ok /\ config.directory = DecodeAbsDir(dIn.s).dir
             ELSE config.directory = dIn.dir
        /\ (supplied /\ pc = "failed" /\ result.step = "directory") =>
             result.error.kind = "InvalidDirectoryError"
        /\ made # <<>> => ~supplied

\* C19: in every resolved configuration enabled is (package is not false) and
\* install is (enabled and package.install is true), so install implies
\* enabled; and this holds at every later point of the call.
C19_PackageSettings ==
  (pc # "idle" /\ ~(pc = "failed" /\ result.step = "resolve")) =>
    LET enabled == params.package.t # "false"
        install == enabled /\ params.package.t = "object"
                           /\ params.package.install = "true"
    IN  /\ config.package.enabled = enabled
        /\ config.package.install = install
        /\ config.package.install => config.package.enabled

C19_Witness ==
  /\ pc = "done"
  /\ params.package.t = "object"
  /\ params.package.install = "true"
  /\ config.package.install
  /\ \E k \in Steps : IsInstall(log[k])

\* C20: the rewriter's write changes dependencies[name] for the queued names
\* only: every other dependency entry, every other manifest field and every
\* other file is as it was read at rewrite time.
C20_RewriteFrame ==
  [][(pc = "links" /\ pc' = "install" /\ disk' # disk) =>
       LET before == JsonParse(disk[ManifestName]).val
           after == JsonParse(disk'[ManifestName]).val
       IN  /\ DOMAIN disk' = DOMAIN disk
           /\ \A f \in DOMAIN disk \ {ManifestName} : disk'[f] = disk[f]
           /\ JsonParse(disk'[ManifestName]).ok
           /\ after.ty = before.ty
           /\ after.scalars = before.scalars
           /\ after.hasDeps = before.hasDeps
           /\ DOMAIN after.deps = DOMAIN before.deps \cup DOMAIN workspaceReplacements
           /\ \A n \in DOMAIN before.deps \ DOMAIN workspaceReplacements :
                after.deps[n] = before.deps[n]
           /\ \A n \in DOMAIN workspaceReplacements :
                after.deps[n] = workspaceReplacements[n]]_vars

\* a rewrite was written beside an untouched declared dependency and beside
\* the entry of a request that was added instead of queued
C20_Witness ==
  /\ pc = "done"
  /\ \E k \in Steps : IsManifestWrite(log[k])
  /\ "other" \in DOMAIN DiskDeps /\ DiskDeps["other"] = <<"^1.0.0">>
  /\ \E i \in Requests :
       /\ AddedAt(i) # {}
       /\ RequestName(i) \in DOMAIN DiskDeps \ DOMAIN workspaceReplacements
       /\ DiskDeps[RequestName(i)] = RequestSpecifier(i)

\* C21: every subprocess spawned through the handle's shell or package
\* manager is in the handle's registry, and each `stop` requests the
\* termination of every such subprocess running at that time.
C21_EverySubprocessTracked ==
  /\ \A i \in 1..Len(processes) : i \in Registered(Len(shellProcesses))
  /\ \A k \in 1..Len(stops) : stops[k].running \subseteq stops[k].requested

\* C22: every call of `stop` completes without error, also when entries have
\* exited, when termination requests fail, and when it is called again; each
\* call sends its request to every registered subprocess that is not halted.
C22_StopNeverFails ==
  \A k \in 1..Len(stops) :
    /\ stops[k].settled = "fulfilled"
    /\ stops[k].requested \subseteq Registered(stops[k].entries)
    /\ stops[k].failed \subseteq stops[k].requested
    /\ \A i \in Registered(stops[k].entries) :
         i \in stops[k].requested \/ processes[i].state = "halted"
    /\ \A i \in stops[k].requested : processes[i].kills >= 1

\* a second stop over an entry whose termination request had failed and an
\* entry that the first stop had terminated
C22_Witness ==
  /\ Len(stops) = 2
  /\ stops[1].failed # {}
  /\ Cardinality(stops[1].requested) >= 2
  /\ stops[2].requested = stops[1].requested
  /\ \E i \in stops[2].requested : processes[i].kills = 2

\* C23: the install command is issued once when the resolved install flag is
\* true and never when it is false; it comes after every link request has
\* been processed and is the last step; when it fails create fails with
\* FileSystemError and returns no handle.
C23_InstallOnceAfterLinks ==
  LET installs == {k \in Steps : IsInstall(log[k])}
  IN  /\ Cardinality(installs) <= IF config.package.install THEN 1 ELSE 0
      /\ pc = "done" =>
           Cardinality(installs) = IF config.package.install THEN 1 ELSE 0
      /\ \A k \in installs :
           /\ k = Len(log)
           /\ log[k].cwd = config.directory
           /\ linkIdx = Len(params.links)
           /\ \A i \in Requests :
                \E j \in 1..(k - 1) :
                  log[j].link = i /\ (IsQueue(log[j]) \/ IsAdd(log[j]))
      /\ (pc = "failed" /\ result.step = "install") =>
           /\ installs # {}
           /\ result.status = "error"
           /\ result.error.kind = "FileSystemError"

C23_Witness ==
  /\ pc = "failed"
  /\ result.step = "install"
  /\ Len(params.links) = 2
  /\ \E k \in Steps : IsInstall(log[k])
  /\ \E j \in Steps : IsQueue(log[j])

\* C24: no step is retried and the first failing step ends the call: each
\* request gets at most one add command and the call at most one install;
\* a failed command or write is the last thing the call did, and after a
\* failure neither the project root nor the history changes.
C24_NoRetry ==
  /\ [](/\ \A i \in Requests : Cardinality(AddedAt(i)) <= 1
        /\ Cardinality({k \in Steps : IsInstall(log[k])}) <= 1
        /\ (pc = "failed" /\ result.step = "link"
             /\ result.error.kind = "FileSystemError") =>
             /\ IsAdd(log[Len(log)])
             /\ log[Len(log)].link = linkIdx + 1
        /\ (pc = "failed" /\ result.step = "install") => IsInstall(log[Len(log)])
        /\ (pc = "failed" /\ result.step = "rewrite write") =>
             \A k \in Steps : ~IsManifestWrite(log[k]) /\ ~IsInstall(log[k]))
  /\ [][pc = "failed" => (disk' = disk /\ log' = log /\ pc' = pc)]_vars

\* the second add command failed after the first had succeeded
C24_Witness ==
  /\ pc = "failed"
  /\ result.step = "link"
  /\ result.error.kind = "FileSystemError"
  /\ linkIdx = 1
  /\ AddedAt(1) # {}
  /\ AddedAt(2) # {}

\* C25: the rewriter starts from the manifest as it is on disk at rewrite
\* time: the dependency entries written by the add commands that ran earlier
\* in the call are in the manifest after the rewrite.
C25_AddedEntriesSurviveRewrite ==
  (\E k \in Steps : IsManifestWrite(log[k])) =>
    \A i \in Requests :
      AddedAt(i) # {} =>
        /\ RequestName(i) \in DOMAIN DiskDeps
        /\ RequestName(i) \notin DOMAIN workspaceReplacements
        /\ \E j \in Requests :
             /\ AddedAt(j) # {}
             /\ RequestName(j) = RequestName(i)
             /\ DiskDeps[RequestName(i)] = RequestSpecifier(j)

C25_Witness ==
  /\ pc = "done"
  /\ \E k \in Steps : IsManifestWrite(log[k])
  /\ \E i \in Requests :
       /\ AddedAt(i) # {}
       /\ RequestName(i) \notin DOMAIN packageJsonResult.deps
       /\ RequestName(i) \in DOMAIN DiskDeps

\* C26: in one call the rewriter reads the manifest at most once and writes
\* it at most once, the one write carrying every queued rewrite; with an
\* empty queue it neither reads nor writes.
C26_OneReadOneWrite ==
  LET reads == {k \in Steps : log[k].ev = "rewriteRead"}
      writes == {k \in Steps : IsManifestWrite(log[k])}
  IN  /\ Cardinality(reads) <= 1
      /\ Cardinality(writes) <= 1
      /\ workspaceReplacements = NoDeps => reads = {} /\ writes = {}
      /\ \A w \in writes :
           /\ \E r \in reads : r < w
           /\ linkIdx = Len(params.links)
           /\ \A n \in DOMAIN workspaceReplacements :
                n \in DOMAIN DiskDeps /\ DiskDeps[n] = workspaceReplacements[n]

\* one write carried two queued rewrites
C26_Witness ==
  /\ pc = "done"
  /\ Cardinality(DOMAIN workspaceReplacements) = 2
  /\ Cardinality({k \in Steps : IsManifestWrite(log[k])}) = 1
  /\ Cardinality({k \in Steps : log[k].ev = "rewriteRead"}) = 1

\* C27: with `package: false` create issues no package manager command,
\* queues and performs no rewrite, never fails for a missing manifest, and
\* when no manifest exists after scaffolding it succeeds with the handle's
\* manifest absent.
C27_PackageManagementDisabled ==
  (pc # "idle" /\ ~(pc = "failed" /\ result.step = "resolve")
     /\ params.package.t = "false") =>
    /\ ~config.package.enabled
    /\ params.links = <<>>
    /\ \A k \in Steps : ~IsInitOperation(log[k])
    /\ result.error.kind # "PackageJsonMissingError"
    /\ pc = "failed" =>
         \/ result.step = "scaffold"
         \/ result.step = "load" /\ ManifestName \in DOMAIN disk
    /\ (pc = "done" /\ ManifestName \notin DOMAIN disk) =>
         /\ result.status = "handle"
         /\ ~project.files.some

C27_Witness ==
  /\ pc = "done"
  /\ params.package.t = "false"
  /\ ManifestName \notin DOMAIN disk
  /\ "index.js" \in DOMAIN disk
  /\ ~project.files.some

\* C28: a manifest file whose text does not parse at load time counts as no
\* manifest: no parse error surfaces; with package management enabled create
\* fails with PackageJsonMissingError, with it disabled create goes on and
\* the handle's manifest is absent.
C28_UnparseableManifestIsAbsent ==
  (pc \in {"assemble", "links", "install", "done", "failed"}
     /\ result.step \notin {"resolve", "scaffold"}
     /\ ManifestName \in DOMAIN disk
     /\ disk[ManifestName].kind = "garbage") =>
    /\ result.error.kind # "Defect"
    /\ packageJsonResult = JsonNull
    /\ config.package.enabled =>
         /\ pc = "failed"
         /\ result.step = "load"
         /\ \/ result.error = PackageJsonMissingError(EncodeSync(config.directory))
            \/ result.error = PlatformError("readString")
    /\ ~config.package.enabled =>
         /\ pc = "failed" => result.error = PlatformError("readString")
         /\ project.assembled => ~project.files.some

C28_Witness ==
  /\ pc = "done"
  /\ ManifestName \in DOMAIN disk
  /\ disk[ManifestName].kind = "garbage"
  /\ ~config.package.enabled
  /\ ~project.files.some

\* `a` is a leading prefix of `s`
IsPrefix(a, s) == Len(a) <= Len(s) /\ SubSeq(s, 1, Len(a)) = a

\* the target's path with the root's path removed where it is a leading
\* prefix, and one leading separator stripped
PrefixRemoved(root, target) ==
  LET r == EncodeSync(root)
      t == EncodeSync(target)
  IN  StripLeadingSep(IF IsPrefix(r, t) THEN SubSeq(t, Len(r) + 1, Len(t)) ELSE t)

\* the specifier an event of the link loop carries
EventSpecifier(e) == IF IsQueue(e) THEN e.sh ELSE SubSeq(e.sh, 5, Len(e.sh))

\* C29: for every project root and link target the relative path is `../`
\* followed by the target's path, from which the root's path is removed
\* only where it is a leading prefix, less one leading separator.
C29_RelativePathRemovesPrefixOnly ==
  \A k \in Steps :
    (IsQueue(log[k]) \/ IsAdd(log[k])) =>
      EventSpecifier(log[k]) =
        <<params.links[log[k].link].protocol, ":", "..", Sep>>
          \o PrefixRemoved(config.directory, LinkDir(params.links[log[k].link]).dir)

\* C30: in the Promise variant the manifest update that replaces the
\* `workspace:*` dependencies is complete before the first package manager
\* command; then an add command is issued for every link request, in list
\* order, those whose dependency was rewritten included.
C30_PromiseRewriteThenAdds ==
  LET adds == {k \in Steps : IsAdd(log[k])}
      updates == {k \in Steps : IsManifestWrite(log[k])}
  IN  /\ Cardinality(updates) <= 1
      /\ \A u \in updates : \A k \in Steps : IsCommand(log[k]) => u < k
      /\ (workspaceReplacements # NoDeps /\ pc \in {"adds", "handle"}) =>
           updates # {}
      /\ \A k \in adds : Cardinality({j \in adds : j <= k}) = log[k].link
      /\ \A i \in 1..linkIdx : AddedAt(i) # {}
      /\ pc = "handle" => \A i \in Requests : Cardinality(AddedAt(i)) = 1

C30_Witness ==
  /\ pc = "handle"
  /\ Len(params.links) = 2
  /\ \E k \in Steps : IsManifestWrite(log[k])
  /\ \E i \in Requests :
       /\ Basename(params.links[i].dir) \in DOMAIN workspaceReplacements
       /\ AddedAt(i) # {}
  /\ \E i \in Requests :
       Basename(params.links[i].dir) \notin DOMAIN workspaceReplacements

\* C31: every command run through the handle's shell or packageManager,
\* while create runs and afterwards, has the resolved project root as its
\* working directory; packageManager(c) runs the shell line `pnpm c`; the
\* root held by the handle never changes once the handle is assembled.
C31_CommandsRunInProjectRoot ==
  /\ [](project.assembled =>
          /\ project.dir = config.directory
          /\ \A k \in Steps : IsCommand(log[k]) =>
                /\ log[k].cwd = config.directory
                /\ Len(log[k].sh) > 2
                /\ SubSeq(log[k].sh, 1, 2) = <<"pnpm", " ">>
          /\ \A r \in 1..Len(processes) :
                /\ processes[r].cwd = EncodeSync(config.directory)
                /\ processes[r].via = "shell" => processes[r].sh = processes[r].arg
                /\ processes[r].via = "packageManager" =>
                      processes[r].sh = <<"pnpm", " ">> \o processes[r].arg)
  /\ [][project.assembled => (project'.dir = project.dir /\ config' = config)]_vars

C31_Witness ==
  /\ pc = "done"
  /\ \E k \in Steps : IsAdd(log[k])
  /\ \E r \in 1..Len(processes) : processes[r].via = "shell"
  /\ \E r \in 1..Len(processes) : processes[r].via = "packageManager"

\* what the nested layout prescribes: its leaves in order, a leaf being a
\* string, an object that directly holds a number or a boolean, or any other
\* value that is not an object; an object of strings and objects is a
\* directory
RECURSIVE LayoutLeaves(_, _)
LayoutLeaves(fields, keys) ==
  IF fields = <<>> THEN <<>>
  ELSE LET key == Head(fields).key
           value == Head(fields).value
           isJson == \E i \in 1..Len(value.fields) :
                       value.fields[i].value.t \in {"number", "boolean"}
           here == IF value.t = "object" /\ ~isJson
                   THEN LayoutLeaves(value.fields, Append(keys, key))
                   ELSE <<[keys |-> Append(keys, key), value |-> value]>>
       IN  here \o LayoutLeaves(Tail(fields), keys)

RECURSIVE JoinKeys(_)
JoinKeys(keys) ==
  IF keys = <<>> THEN <<>>
  ELSE IF Len(keys) = 1 THEN Head(keys)
  ELSE Head(keys) \o <<Sep>> \o JoinKeys(Tail(keys))

\* the file a leaf stands for
LeafPath(leaf) == layoutCall.directory.segments \o Segments(JoinKeys(leaf.keys))
LeafText(leaf) == [json |-> leaf.value.t # "string", of |-> leaf.value]

\* C32 as stated: a set that returns has written exactly one file per leaf,
\* at the leaf's keys joined with "/" under the root, a string verbatim and
\* anything else as JSON, and returns its argument.
C32_OneFilePerLeaf ==
  layoutResult.status = "returned" =>
    LET leaves == LayoutLeaves(layoutCall.layout.fields, <<>>)
    IN  /\ Cardinality(layoutFs) = Len(leaves)
        /\ \A i \in 1..Len(leaves) :
             [path |-> LeafPath(leaves[i]), text |-> LeafText(leaves[i])] \in layoutFs
        /\ layoutResult.value = layoutCall.layout

\* C32, amended: a set that returns has written exactly one file per
\* distinct leaf path; the file holds the content of the last leaf, in the
\* order of the layout, that has this path; set returns its argument.
C32_OneFilePerLeafPath ==
  layoutResult.status = "returned" =>
    LET leaves == LayoutLeaves(layoutCall.layout.fields, <<>>)
        last(i) == \A j \in 1..Len(leaves) :
                     LeafPath(leaves[j]) = LeafPath(leaves[i]) => j <= i
    IN  /\ layoutFs = {[path |-> LeafPath(leaves[i]), text |-> LeafText(leaves[i])] :
                         i \in {k \in 1..Len(leaves) : last(k)}}
        /\ Cardinality(layoutFs) = Cardinality({LeafPath(leaves[i]) : i \in 1..Len(leaves)})
        /\ layoutResult.value = layoutCall.layout

C32_Witness ==
  LET leaves == LayoutLeaves(layoutCall.layout.fields, <<>>)
  IN  /\ layoutResult.status = "returned"
      /\ \E i, j \in 1..Len(leaves) :
           /\ i < j
           /\ LeafPath(leaves[i]) = LeafPath(leaves[j])
           /\ leaves[i].value.t = "string"
           /\ Len(leaves[i].keys) = 2
           /\ leaves[j].value.t = "object"
           /\ [path |-> LeafPath(leaves[j]), text |-> LeafText(leaves[j])] \in layoutFs

\* the requests whose target is a string that is no absolute path
Undecodable ==
  {i \in Requests :
     /\ params.links[i].dir.t = "string"
     /\ (params.links[i].dir.s = <<>> \/ Head(params.links[i].dir.s) # Sep)}

\* C33: the link loop never gets past a request whose string target fails to
\* decode: create fails there with InvalidDirectoryError, every earlier
\* request has been queued or has had its add command issued, nothing is
\* recorded for that request or a later one, no rewrite is read or written,
\* and the queued names still have `workspace:*` in the manifest on disk.
C33_UndecodableTargetStopsLoop ==
  /\ \A i \in Undecodable : linkIdx < i
  /\ (pc \in {"rewrite", "install", "done"}) => Undecodable = {}
  /\ (pc = "failed" /\ result.error.kind = "InvalidDirectoryError"
        /\ result.step = "link") =>
       LET i == linkIdx + 1
       IN  /\ i \in Undecodable
           /\ result.status = "error"
           /\ result.error = InvalidDirectoryError(params.links[i].dir.s)
           /\ \A j \in 1..(i - 1) :
                IF LoadedAsWorkspace(RequestName(j))
                THEN QueuedAt(j) # {} /\ AddedAt(j) = {}
                ELSE AddedAt(j) # {} /\ QueuedAt(j) = {}
           /\ \A k \in Steps : log[k].link < i
           /\ \A k \in Steps : log[k].ev \notin {"rewriteRead", "rewriteWrite"}
           /\ ~IsInstall(log[Len(log)])
           /\ \A n \in DOMAIN workspaceReplacements :
                n \in DOMAIN DiskDeps /\ DiskDeps[n] = WorkspaceStar

C33_Witness ==
  /\ pc = "failed"
  /\ result.error.kind = "InvalidDirectoryError"
  /\ result.step = "link"
  /\ linkIdx = 1
  /\ QueuedAt(1) # {}
  /\ workspaceReplacements # NoDeps
  /\ Len(params.links) = 2

\* the manifest on disk parses to an object without a `dependencies` field
DiskManifestLacksDependencies ==
  /\ ManifestName \in DOMAIN disk
  /\ JsonParse(disk[ManifestName]).ok
  /\ JsonTruthy(JsonParse(disk[ManifestName]).val)
  /\ ~JsonParse(disk[ManifestName]).val.hasDeps

\* C34: with a nonempty queue, when the manifest read back at rewrite time
\* has no `dependencies` field, the rewrite step changes no file and raises
\* no error; create goes on to the install step, and the call fails there
\* or returns the handle.
C34_RewriteSkippedWithoutDependencies ==
  /\ [][(/\ pc = "links"
          /\ linkIdx = Len(params.links)
          /\ workspaceReplacements # NoDeps
          /\ DiskManifestLacksDependencies
          /\ Len(log') > Len(log)) =>
         (/\ pc' = "install"
          /\ disk' = disk
          /\ result' = Pending
          /\ log' = Append(log, Event("rewriteRead", 0, <<>>, project.dir)))]_vars
  /\ []((workspaceReplacements # NoDeps /\ DiskManifestLacksDependencies) =>
          /\ \A k \in Steps : ~IsManifestWrite(log[k])
          /\ pc = "failed" => result.step \in {"link", "rewrite read", "install"}
          /\ pc = "done" => result = Success)

C34_Witness ==
  /\ pc = "done"
  /\ result = Success
  /\ workspaceReplacements # NoDeps
  /\ DiskManifestLacksDependencies
  /\ \E k \in Steps : log[k].ev = "rewriteRead"
  /\ \E k \in Steps : IsInstall(log[k])

\* the requests the loop has taken whose name is `name`
TakenWithName(name) == {i \in 1..linkIdx : RequestName(i) = name}

\* C35: the rewrite queue holds one entry per workspace-matched name, however
\* many requests have that name, and its specifier is the one computed from
\* the latest of these requests; that specifier is what the rewrite writes
\* to the manifest.
C35_LaterRequestWins ==
  /\ DOMAIN workspaceReplacements =
       {RequestName(i) : i \in {j \in 1..linkIdx : LoadedAsWorkspace(RequestName(j))}}
  /\ \A name \in DOMAIN workspaceReplacements :
       /\ \A i \in TakenWithName(name) : Cardinality(QueuedAt(i)) = 1
       /\ \E i \in TakenWithName(name) :
            /\ \A j \in TakenWithName(name) : j <= i
            /\ workspaceReplacements[name] = RequestSpecifier(i)
       /\ (\E k \in Steps : IsManifestWrite(log[k])) =>
            /\ name \in DOMAIN DiskDeps
            /\ DiskDeps[name] = workspaceReplacements[name]

C35_Witness ==
  /\ pc = "done"
  /\ \E k \in Steps : IsManifestWrite(log[k])
  /\ \E i, j \in Requests :
       /\ i < j
       /\ RequestName(i) = RequestName(j)
       /\ QueuedAt(i) # {} /\ QueuedAt(j) # {}
       /\ RequestSpecifier(i) # RequestSpecifier(j)
       /\ DiskDeps[RequestName(j)] = RequestSpecifier(j)
       /\ Cardinality(DOMAIN workspaceReplacements) = 1

\* C36: the Manifest Loader's value does not change once loaded, whatever
\* happens to the manifest on disk, and every step of the link loop decides
\* its request against that value: the request is queued iff the loaded
\* manifest has `workspace:*` for its name and is added otherwise.
C36_DecisionsUseLoadedManifest ==
  /\ [][pc \notin {"idle", "scaffold", "load"} =>
          packageJsonResult' = packageJsonResult]_vars
  /\ [][(pc = "links" /\ linkIdx < Len(params.links) /\ log' # log) =>
          LET decision == log'[Len(log')]
              name == RequestName(linkIdx + 1)
          IN  /\ decision.link = linkIdx + 1
              /\ IsQueue(decision) <=> LoadedAsWorkspace(name)
              /\ IsAdd(decision) <=> ~LoadedAsWorkspace(name)]_vars

\* an add command of the first request has changed the manifest on disk,
\* and the second request was queued
C36_Witness ==
  /\ linkIdx = 2
  /\ AddedAt(1) # {}
  /\ QueuedAt(2) # {}
  /\ RequestName(1) \in DOMAIN DiskDeps
  /\ RequestName(1) \notin DOMAIN packageJsonResult.deps
  /\ DiskManifest # packageJsonResult

\* C37: when the manifest file parses to a falsy JSON value (null, false, 0
\* or ""), an enabled call fails with PackageJsonMissingError and a disabled
\* call gets a handle whose manifest is absent.
C37_FalsyManifestIsMissing ==
  (/\ pc \notin {"idle", "scaffold", "load"}
   /\ ManifestName \in DOMAIN disk
   /\ JsonParse(disk[ManifestName]).ok
   /\ JsonParse(disk[ManifestName]).val.ty \in {"null", "false", "zero", "emptyString"}) =>
    IF config.package.enabled
    THEN /\ pc = "failed"
         /\ result.status = "error"
         /\ result.error.kind \in {"PackageJsonMissingError", "PlatformError"}
         /\ ~project.assembled
    ELSE /\ pc = "failed" => result.error.kind = "PlatformError"
         /\ project.assembled => ~project.files.some

====
